---- MODULE Spec2Model ----
(***************************************************************************)
(* gpsstats: a bridge from gpsd to an MQTT broker.                         *)
(*                                                                         *)
(* The module models src/src/main.c: the main loop (reconnect check, MQTT  *)
(* pump, GPS wait/read, change detection, payload rendering, publish), the *)
(* reconnect back-off of reconnect_mqtt, and the time arithmetic of        *)
(* src/include/timespec.h.  The two client libraries (libgps and           *)
(* libmosquitto) are the environment: every status they can return is a    *)
(* nondeterministic choice.                                                 *)
(***************************************************************************)
EXTENDS Integers, Sequences, FiniteSets, TLC

(***************************************************************************)
(* Bounds of the model.                                                     *)
(***************************************************************************)
\* time(NULL) at process start, and the last second the clock reaches
StartTime == 1
MaxTime == 40
\* the failed reconnect attempts in a row that are counted
MaxFails == 8
\* the instants TS_SUB is run on lie this many seconds around second 100
MaxSecSpread == 1
\* the events the counters of a handle count up to, and the seconds that
\* pass while the functions of gpsd.c and mqtt.c are called
MaxEvents == 3
MaxPollTime == 2
\* connection attempts followed with one MQTT client
MaxAttempts == 2
\* the scalars and the mappings of a configuration file
MaxScalars == 8
MaxMappings == 3
\* stand-in for libgps' MAXCHANNELS, the declared capacity of data.skyview
MaxChannels == 2

(***************************************************************************)
(* Program constants.                                                       *)
(***************************************************************************)
MAX_RECONNECT_DELAY_VALUE == 32
GNSSID_CNT == 8
INITIAL_BUFFER_SIZE == 256
NS_IN_SEC == 1000000000
\* gps.h: MODE_NOT_SEEN = 0, MODE_NO_FIX = 1, MODE_2D = 2, MODE_3D = 3
MODE_NO_FIX == 1
\* errno.h (Linux), as gpsd.c and mqtt.c return them negated
EIO == 5
EINVAL == 22
ENOMEM == 12
ENOTCONN == 107
ENOTRECOVERABLE == 131

(***************************************************************************)
(* libmosquitto statuses (enum mosq_err_t), by name.                        *)
(***************************************************************************)
MOSQ_ERR_SUCCESS == "MOSQ_ERR_SUCCESS"
MosqErrors ==
    {"MOSQ_ERR_NOMEM", "MOSQ_ERR_PROTOCOL", "MOSQ_ERR_INVAL", "MOSQ_ERR_NO_CONN",
     "MOSQ_ERR_CONN_REFUSED", "MOSQ_ERR_CONN_LOST", "MOSQ_ERR_TLS",
     "MOSQ_ERR_AUTH", "MOSQ_ERR_UNKNOWN", "MOSQ_ERR_ERRNO"}

\* statuses mosquitto_connect / mosquitto_reconnect fail with
ConnectErrors == {"MOSQ_ERR_ERRNO", "MOSQ_ERR_CONN_REFUSED"}
\* results the library hands to the disconnect callback when it drops an
\* established connection inside mosquitto_loop
DisconnectResults == {"MOSQ_ERR_CONN_LOST", "MOSQ_ERR_ERRNO", "MOSQ_ERR_PROTOCOL"}
\* statuses mosquitto_publish fails with on a live connection
PublishErrors == {"MOSQ_ERR_NOMEM"}

mqtt_needs_to_reconnect(status) ==
    \/ status = "MOSQ_ERR_NO_CONN"
    \/ status = "MOSQ_ERR_CONN_REFUSED"
    \/ status = "MOSQ_ERR_CONN_LOST"
    \/ status = "MOSQ_ERR_TLS"
    \/ status = "MOSQ_ERR_AUTH"
    \/ status = "MOSQ_ERR_UNKNOWN"

(***************************************************************************)
(* timespec.h                                                               *)
(***************************************************************************)
Timespec(s, ns) == [tv_sec |-> s, tv_nsec |-> ns]

\* mutant: the nanoseconds are brought into range, the seconds are left
TS_NORM_NoCarry(ts) ==
    IF (1 <= ts.tv_sec) \/ ((0 = ts.tv_sec) /\ (0 <= ts.tv_nsec))
    THEN IF NS_IN_SEC <= ts.tv_nsec
         THEN Timespec(ts.tv_sec, ts.tv_nsec - NS_IN_SEC)
         ELSE IF 0 > ts.tv_nsec
              THEN Timespec(ts.tv_sec, ts.tv_nsec + NS_IN_SEC)
              ELSE ts
    ELSE IF (0 - NS_IN_SEC) >= ts.tv_nsec
         THEN Timespec(ts.tv_sec, ts.tv_nsec + NS_IN_SEC)
         ELSE IF 0 < ts.tv_nsec
              THEN Timespec(ts.tv_sec, ts.tv_nsec - NS_IN_SEC)
              ELSE ts

\* mutant: a difference that is negative is left as the subtraction made it
TS_NORM_PositiveOnly(ts) ==
    IF (1 <= ts.tv_sec) \/ ((0 = ts.tv_sec) /\ (0 <= ts.tv_nsec))
    THEN IF NS_IN_SEC <= ts.tv_nsec
         THEN Timespec(ts.tv_sec + 1, ts.tv_nsec - NS_IN_SEC)
         ELSE IF 0 > ts.tv_nsec
              THEN Timespec(ts.tv_sec - 1, ts.tv_nsec + NS_IN_SEC)
              ELSE ts
    ELSE ts

TS_NORM(ts) ==
    IF (1 <= ts.tv_sec) \/ ((0 = ts.tv_sec) /\ (0 <= ts.tv_nsec))
    THEN \* result is positive
         IF NS_IN_SEC <= ts.tv_nsec
         THEN Timespec(ts.tv_sec + 1, ts.tv_nsec - NS_IN_SEC)
         ELSE IF 0 > ts.tv_nsec
              THEN Timespec(ts.tv_sec - 1, ts.tv_nsec + NS_IN_SEC)
              ELSE ts
    ELSE \* result is negative
         IF (0 - NS_IN_SEC) >= ts.tv_nsec
         THEN Timespec(ts.tv_sec - 1, ts.tv_nsec + NS_IN_SEC)
         ELSE IF 0 < ts.tv_nsec
              THEN Timespec(ts.tv_sec + 1, ts.tv_nsec - NS_IN_SEC)
              ELSE ts

TS_SUB(ts1, ts2) ==
    TS_NORM(Timespec(ts1.tv_sec - ts2.tv_sec, ts1.tv_nsec - ts2.tv_nsec))

(***************************************************************************)
(* Values of type double.  A finite double is kept as a reduced fraction   *)
(* num/den, so that record equality is numeric equality; NaN is a value of *)
(* its own, which C's == never finds equal to anything.                    *)
(***************************************************************************)
RECURSIVE Gcd(_, _)
Gcd(a, b) == IF b = 0 THEN a ELSE Gcd(b, a % b)

Abs(n) == IF n < 0 THEN 0 - n ELSE n

Dbl(n) == [nan |-> FALSE, num |-> n, den |-> 1]
NaN == [nan |-> TRUE, num |-> 0, den |-> 1]

\* a / b in double arithmetic, b > 0
DblDiv(a, b) ==
    LET g == Gcd(Abs(a), b)
    IN  [nan |-> FALSE, num |-> a \div g, den |-> b \div g]

\* the C comparison x == y on doubles
DblEq(x, y) == ~x.nan /\ ~y.nan /\ x.num = y.num /\ x.den = y.den

(***************************************************************************)
(* struct gps_data_t, as far as main.c reads it.                            *)
(*   set                 flags of the last report                          *)
(*   fix_mode, fix_time, fix_qErr      data.fix.{mode,time,qErr}           *)
(*   satellites_used, satellites_visible                                   *)
(*   skyview             the array, MaxChannels entries (index 0 is [1])   *)
(*   beyond              what a read of skyview[MAXCHANNELS] finds         *)
(*   tdop                data.dop.tdop                                      *)
(*   toff, pps           struct timedelta_t {real, clock}                  *)
(***************************************************************************)
VERSION_SET == "VERSION_SET"
PACKET_SET == "PACKET_SET"
ERROR_SET == "ERROR_SET"
TOFF_SET == "TOFF_SET"
PPS_SET == "PPS_SET"

Sat(used, ss, svid, gnssid) ==
    [used |-> used, ss |-> ss, svid |-> svid, gnssid |-> gnssid]
ZeroSat == Sat(FALSE, 0, 0, 0)
ZeroTs == Timespec(0, 0)
ZeroDelta == [real |-> ZeroTs, clock |-> ZeroTs]

\* the array of a sky report with the satellites of s: libgps clears the
\* entries it does not fill
Skyview(s) == [i \in 1..MaxChannels |-> IF i <= Len(s) THEN s[i] ELSE ZeroSat]

\* struct gps_data_t data = { 0 }
ZeroData ==
    [set |-> {}, fix_mode |-> 0, fix_time |-> 0, fix_qErr |-> 0,
     satellites_used |-> 0, satellites_visible |-> 0,
     skyview |-> Skyview(<< >>), beyond |-> ZeroSat, tdop |-> Dbl(0),
     toff |-> ZeroDelta, pps |-> ZeroDelta]

\* data.skyview[i], i counted from 0 as in the source; index MAXCHANNELS is
\* past the array
SkyAt(d, i) == IF i < MaxChannels THEN d.skyview[i + 1] ELSE d.beyond

(***************************************************************************)
(* run_state_t (without config and mosq, which never change in the loop).   *)
(***************************************************************************)
ZeroSeen == [g \in 0..(GNSSID_CNT - 1) |-> 0]

\* static run_state_t run_state = { 0 }
ZeroRunState ==
    [reconnect_mosq |-> FALSE, next_reconnect_attempt |-> 0,
     next_delay_value |-> 0,
     time |-> 0, sats_visible |-> 0, sats_used |-> 0, qErr |-> 0,
     tdop |-> Dbl(0), avg_snr |-> Dbl(0),
     toff_diff |-> ZeroTs, pps_diff |-> ZeroTs,
     sats_seen |-> ZeroSeen, loop |-> FALSE]

(***************************************************************************)
(* gps_stats_changed                                                        *)
(***************************************************************************)
\* one round of the loop over the skyview: the body for index i
ScanSat(acc, sat) ==
    IF ~sat.used
    THEN acc
    ELSE [snr_total |-> IF sat.ss > 1 THEN acc.snr_total + sat.ss
                        ELSE acc.snr_total,
          sats_seen |-> IF sat.svid # 0 /\ sat.gnssid >= 0
                           /\ sat.gnssid < GNSSID_CNT
                        THEN [acc.sats_seen EXCEPT ![sat.gnssid] = (@ + 1) % 256]
                        ELSE acc.sats_seen]

\* for (i = 0; i <= data->satellites_visible; i++), from index i on
RECURSIVE ScanFrom(_, _, _)
ScanFrom(d, i, acc) ==
    IF i <= d.satellites_visible
    THEN ScanFrom(d, i + 1, ScanSat(acc, SkyAt(d, i)))
    ELSE acc

ScanSkyview(d) == ScanFrom(d, 0, [snr_total |-> 0, sats_seen |-> ZeroSeen])

\* the indices i the loop reads data->skyview[i] at, from index i on
RECURSIVE IndicesFrom(_, _)
IndicesFrom(d, i) ==
    IF i <= d.satellites_visible
    THEN {i} \cup IndicesFrom(d, i + 1)
    ELSE {}

ScanIndices(d) == IndicesFrom(d, 0)

SnrAvg(d) ==
    IF d.satellites_used > 0
    THEN DblDiv(ScanSkyview(d).snr_total, d.satellites_used)
    ELSE Dbl(0)

\* the comparison of lines 93-97: TRUE when the fix equals the snapshot
StatsEqual(rs, d) ==
    /\ rs.sats_used = d.satellites_used
    /\ rs.sats_visible = d.satellites_visible
    /\ DblEq(rs.tdop, d.tdop)
    /\ DblEq(rs.avg_snr, SnrAvg(d))
    /\ rs.sats_seen = ScanSkyview(d).sats_seen

\* mutant: the fix time and the clock quality error are not stored
UpdateStats_KeepTime(rs, d) ==
    [rs EXCEPT !.sats_used = d.satellites_used,
               !.sats_visible = d.satellites_visible,
               !.tdop = d.tdop,
               !.avg_snr = SnrAvg(d),
               !.sats_seen = ScanSkyview(d).sats_seen]

\* lines 101-108
UpdateStats(rs, d) ==
    [rs EXCEPT !.time = d.fix_time,
               !.qErr = d.fix_qErr,
               !.sats_used = d.satellites_used,
               !.sats_visible = d.satellites_visible,
               !.tdop = d.tdop,
               !.avg_snr = SnrAvg(d),
               !.sats_seen = ScanSkyview(d).sats_seen]

\* the function: its return value and run_state after it
gps_stats_changed(rs, d) ==
    IF StatsEqual(rs, d)
    THEN [changed |-> FALSE, rs |-> rs]
    ELSE [changed |-> TRUE, rs |-> UpdateStats(rs, d)]

(***************************************************************************)
(* create_mqtt_payload.  A payload is the sequence of the fields written,  *)
(* closed by the field "}"; a failed rendering returns NULL.  Every field   *)
(* carries the value handed to snprintf: an integer (%d, %ld), a double    *)
(* (%f) or the double TSTONS makes of a timespec (%f).  The result of       *)
(* malloc is not checked (line 132): when it is NULL the snprintf of the   *)
(* first BUFFER_ADD writes its text to address 0, where no page of a       *)
(* process is mapped, and the process is killed (SIGSEGV) inside the       *)
(* function.                                                                *)
(***************************************************************************)
NULL == << >>

gnssid_name ==
    [g \in 0..(GNSSID_CNT - 1) |->
        CASE g = 0 -> "gps" [] g = 1 -> "sbas" [] g = 2 -> "galileo"
          [] g = 3 -> "beidou" [] g = 4 -> "imes" [] g = 5 -> "qzss"
          [] g = 6 -> "glonass" [] OTHER -> "irnss"]

\* strlen(gnssid_name[g])
gnssid_name_len ==
    [g \in 0..(GNSSID_CNT - 1) |->
        CASE g = 0 -> 3 [] g = 1 -> 4 [] g = 2 -> 7 [] g = 3 -> 6
          [] g = 4 -> 4 [] g = 5 -> 4 [] g = 6 -> 7 [] OTHER -> 5]

FieldInt(name, n) ==
    [name |-> name, kind |-> "int", nan |-> FALSE, a |-> n, b |-> 1]
FieldDbl(name, x) ==
    [name |-> name, kind |-> "double", nan |-> x.nan, a |-> x.num, b |-> x.den]
\* %.9ld: an integer written with nine digits at least
FieldNsec(name, n) ==
    [name |-> name, kind |-> "nsec", nan |-> FALSE, a |-> n, b |-> 1]
\* a format that spells out a flag: true or false
FieldBool(name, flag) ==
    [name |-> name, kind |-> "text", nan |-> FALSE,
     a |-> IF flag THEN 1 ELSE 0, b |-> 1]
\* TSTONS(ts): (double) tv_sec + (double) tv_nsec / 1e9
FieldTs(name, ts) ==
    [name |-> name, kind |-> "tstons", nan |-> FALSE,
     a |-> ts.tv_sec, b |-> ts.tv_nsec]
\* the closing brace, a format without a conversion
FieldClose == [name |-> "}", kind |-> "text", nan |-> FALSE, a |-> 0, b |-> 1]

\* the number of decimal digits of n >= 0
RECURSIVE Digits(_)
Digits(n) == IF n < 10 THEN 1 ELSE 1 + Digits(n \div 10)

\* S = 9, 99, 999, ...: the next whole number has a digit more
RECURSIVE AllNines(_)
AllNines(n) == n % 10 = 9 /\ (n < 10 \/ AllNines(n \div 10))

\* the sign, the whole seconds and the nanoseconds of the exact value of
\* tv_sec + tv_nsec / 1e9, for fields of either sign
TsParts(tv_sec, tv_nsec) ==
    LET s == tv_sec + (tv_nsec \div NS_IN_SEC)
        n == tv_nsec % NS_IN_SEC
    IN  IF s >= 0
        THEN [neg |-> FALSE, sec |-> s, nsec |-> n]
        ELSE IF n = 0
        THEN [neg |-> TRUE, sec |-> 0 - s, nsec |-> 0]
        ELSE [neg |-> TRUE, sec |-> 0 - s - 1, nsec |-> NS_IN_SEC - n]

\* TSTONS adds two doubles, and %f then rounds the double it is given, not
\* the exact sum: RoundsUpFrom(k) is the least tv_nsec with which a second
\* count of k nines is printed as the whole number above it (IEEE 754
\* binary64, round to nearest; e.g. 9 + 0.9999995 is stored below 9.9999995
\* and printed 9.999999, 99 + 0.9999995 is stored above and printed
\* 100.000000, and from 10 digits on the doubles lie further apart than the
\* sixth decimal)
RoundsUpFrom(k) ==
    CASE k \in {2, 7} -> 999999500
      [] k \in {1, 3, 4, 5, 6, 8} -> 999999501
      [] k = 9 -> 999999464
      [] k = 10 -> 999999047
      [] k = 11 -> 999992371
      [] k = 12 -> 999938965
      [] k = 13 -> 999023438
      [] k = 14 -> 992187500
      [] k = 15 -> 937500000

\* the number of characters snprintf writes for the value of a field:
\* %d and %ld write the digits and a sign; %f writes the integer part, a
\* point and six decimals, rounding to the sixth decimal.  Rounding adds a
\* character only when it carries into a new digit of the integer part; for
\* TSTONS the second count is taken below 10^15, where a double holds it
ValueLen(f) ==
    CASE f.kind = "text" -> 0
      [] f.kind = "nsec" ->
            (IF Digits(Abs(f.a)) < 9 THEN 9 ELSE Digits(Abs(f.a)))
            + (IF f.a < 0 THEN 1 ELSE 0)
      [] f.kind = "int" ->
            Digits(Abs(f.a)) + (IF f.a < 0 THEN 1 ELSE 0)
      [] f.kind = "double" ->
            IF f.nan
            THEN 3
            ELSE LET q == Abs(f.a) \div f.b
                     r == Abs(f.a) % f.b
                     up == IF r * 2000000 >= f.b * 1999999 THEN 1 ELSE 0
                 IN  Digits(q + up) + 7 + (IF f.a < 0 THEN 1 ELSE 0)
      [] OTHER ->
            CHOOSE len \in
                {Digits(p.sec) + 7 + (IF p.neg THEN 1 ELSE 0)
                 + (IF /\ AllNines(p.sec)
                       /\ p.nsec >= RoundsUpFrom(Digits(p.sec))
                    THEN 1 ELSE 0) :
                    p \in {TsParts(f.a, f.b)}} : TRUE

\* mutant: an append that does not fit is cut short instead of failing
BUFFER_ADD_Truncating(buf, text, fields) ==
    IF ~buf.ok
    THEN buf
    ELSE [ok |-> TRUE, offset |-> buf.offset + 1, fields |-> buf.fields \o fields]

\* BUFFER_ADD: buf is [ok, offset, fields]; text is the number of characters
\* of the format outside its conversions
BUFFER_ADD(buf, text, fields) ==
    LET status == text
            + (IF Len(fields) >= 1 THEN ValueLen(fields[1]) ELSE 0)
            + (IF Len(fields) >= 2 THEN ValueLen(fields[2]) ELSE 0)
            + (IF Len(fields) >= 3 THEN ValueLen(fields[3]) ELSE 0)
            + (IF Len(fields) >= 4 THEN ValueLen(fields[4]) ELSE 0)
            + (IF Len(fields) >= 5 THEN ValueLen(fields[5]) ELSE 0)
    IN  IF ~buf.ok
        THEN buf
        ELSE IF status < 1 \/ status >= INITIAL_BUFFER_SIZE - buf.offset
             THEN [ok |-> FALSE, offset |-> buf.offset, fields |-> << >>]
             ELSE [ok |-> TRUE, offset |-> buf.offset + status,
                   fields |-> buf.fields \o fields]

\* mutant: the constellations nothing was seen of are written too
RECURSIVE AddSeen_All(_, _, _)
AddSeen_All(buf, rs, g) ==
    IF g >= GNSSID_CNT
    THEN buf
    ELSE AddSeen_All(BUFFER_ADD(buf, 9 + gnssid_name_len[g],
                                << FieldInt(gnssid_name[g], rs.sats_seen[g]) >>),
                     rs, g + 1)

\* the loop over the constellations, from index g on
RECURSIVE AddSeen(_, _, _)
AddSeen(buf, rs, g) ==
    IF g >= GNSSID_CNT
    THEN buf
    ELSE AddSeen(IF rs.sats_seen[g] > 0
                 THEN BUFFER_ADD(buf, 9 + gnssid_name_len[g],
                                 << FieldInt(gnssid_name[g], rs.sats_seen[g]) >>)
                 ELSE buf,
                 rs, g + 1)

\* mutant: qErr is written whatever its value
create_mqtt_payload_QErrAlways(allocated, rs) ==
    LET b0 == [ok |-> allocated, offset |-> 0, fields |-> << >>]
        b1 == BUFFER_ADD(b0, 56,
                         << FieldDbl("time", Dbl(rs.time)),
                            FieldInt("sats_used", rs.sats_used),
                            FieldInt("sats_visible", rs.sats_visible),
                            FieldDbl("tdop", rs.tdop),
                            FieldDbl("avg_snr", rs.avg_snr) >>)
        b2 == BUFFER_ADD(b1, 8, << FieldInt("qErr", rs.qErr) >>)
        b3 == BUFFER_ADD(b2, 8, << FieldTs("toff", rs.toff_diff) >>)
        b4 == BUFFER_ADD(b3, 7, << FieldTs("pps", rs.pps_diff) >>)
        b5 == AddSeen(b4, rs, 0)
        b6 == BUFFER_ADD(b5, 1, << FieldClose >>)
    IN  [killed |-> ~allocated,
         event_data |-> IF b6.ok THEN b6.fields ELSE NULL]

\* lines 129-158; allocated: malloc has returned a buffer.  The result is
\* the pointer returned, or killed: the process has died in the first
\* BUFFER_ADD and nothing is returned
create_mqtt_payload(allocated, rs) ==
    LET b0 == [ok |-> allocated, offset |-> 0, fields |-> << >>]
        b1 == BUFFER_ADD(b0, 56,
                         << FieldDbl("time", Dbl(rs.time)),
                            FieldInt("sats_used", rs.sats_used),
                            FieldInt("sats_visible", rs.sats_visible),
                            FieldDbl("tdop", rs.tdop),
                            FieldDbl("avg_snr", rs.avg_snr) >>)
        b2 == IF rs.qErr # 0
              THEN BUFFER_ADD(b1, 8, << FieldInt("qErr", rs.qErr) >>)
              ELSE b1
        b3 == BUFFER_ADD(b2, 8, << FieldTs("toff", rs.toff_diff) >>)
        b4 == BUFFER_ADD(b3, 7, << FieldTs("pps", rs.pps_diff) >>)
        b5 == AddSeen(b4, rs, 0)
        b6 == BUFFER_ADD(b5, 1, << FieldClose >>)
    IN  [killed |-> ~allocated,
         event_data |-> IF b6.ok THEN b6.fields ELSE NULL]

(***************************************************************************)
(* reconnect_mqtt                                                           *)
(***************************************************************************)
\* mutant: the scheduled second itself counts as passed
ReconnectNotDue_Strict(rs, t) ==
    rs.reconnect_mosq /\ rs.next_reconnect_attempt > t

\* line 216: a reconnect is pending and its time has not passed
ReconnectNotDue(rs, t) ==
    rs.reconnect_mosq /\ rs.next_reconnect_attempt >= t

\* mutant: the delay doubles without the cap
NextDelayValue_NoCap(d) == d * 2

\* lines 227-229; next_delay_value is a uint32_t, and the shift cannot wrap
\* from a value below MAX_RECONNECT_DELAY_VALUE
NextDelayValue(d) ==
    IF d < MAX_RECONNECT_DELAY_VALUE THEN d * 2 ELSE d

\* lines 220-231: mosquitto_reconnect failed at time t
ReconnectFailed(rs, t) ==
    [rs EXCEPT !.reconnect_mosq = TRUE,
               !.next_reconnect_attempt = t + rs.next_delay_value,
               !.next_delay_value = NextDelayValue(rs.next_delay_value)]

\* mutant: a success leaves the delay where the failures put it
ReconnectSucceeded_KeepDelay(rs) ==
    [rs EXCEPT !.reconnect_mosq = FALSE,
               !.next_reconnect_attempt = -1]

\* lines 220-238: mosquitto_reconnect succeeded
ReconnectSucceeded(rs) ==
    [rs EXCEPT !.reconnect_mosq = FALSE,
               !.next_reconnect_attempt = -1,
               !.next_delay_value = 1]

\* mutant: the callback schedules the next attempt itself, inside the pump
my_disconnect_cb_Schedules(rs, result) ==
    IF result # MOSQ_ERR_SUCCESS /\ mqtt_needs_to_reconnect(result)
    THEN [rs EXCEPT !.reconnect_mosq = TRUE,
                    !.next_delay_value = NextDelayValue(rs.next_delay_value)]
    ELSE rs

\* my_disconnect_cb(result)
my_disconnect_cb(rs, result) ==
    IF result # MOSQ_ERR_SUCCESS /\ mqtt_needs_to_reconnect(result)
    THEN [rs EXCEPT !.reconnect_mosq = TRUE]
    ELSE rs

(***************************************************************************)
(* The body of the main loop for one report (lines 396-419).               *)
(***************************************************************************)
\* mutant: the operands of the subtraction are swapped
UpdateDeltas_Swapped(rs, d) ==
    [rs EXCEPT !.toff_diff = IF TOFF_SET \in d.set
                             THEN TS_SUB(d.toff.real, d.toff.clock) ELSE @,
               !.pps_diff = IF PPS_SET \in d.set
                            THEN TS_SUB(d.pps.real, d.pps.clock) ELSE @]

\* lines 405-411
UpdateDeltas(rs, d) ==
    [rs EXCEPT !.toff_diff = IF TOFF_SET \in d.set
                             THEN TS_SUB(d.toff.clock, d.toff.real) ELSE @,
               !.pps_diff = IF PPS_SET \in d.set
                            THEN TS_SUB(d.pps.clock, d.pps.real) ELSE @]

\* mutant: a report without a fix passes the gate
Qualifies_NoFixPasses(d) == d.fix_mode >= MODE_NO_FIX /\ d.satellites_used > 0

\* line 413, before the call of gps_stats_changed
Qualifies(d) == d.fix_mode > MODE_NO_FIX /\ d.satellites_used > 0

\* run_state after the report, whether gps_stats_changed found a change, and
\* the payload made (NULL when none); allocated is what malloc does if
\* create_mqtt_payload is called, and killed that the process died in it
HandleReport(rs, d, allocated) ==
    IF ERROR_SET \in d.set
    THEN [rs |-> rs, changed |-> FALSE, event_data |-> NULL, killed |-> FALSE]
    ELSE LET rs1 == UpdateDeltas(rs, d)
         IN  IF ~Qualifies(d)
             THEN [rs |-> rs1, changed |-> FALSE, event_data |-> NULL,
                   killed |-> FALSE]
             ELSE LET c == gps_stats_changed(rs1, d)
                  IN  IF c.changed
                      THEN CHOOSE h \in
                              {[rs |-> c.rs, changed |-> TRUE,
                                event_data |-> e.event_data,
                                killed |-> e.killed] :
                                 e \in {create_mqtt_payload(allocated, c.rs)}} :
                              TRUE
                      ELSE [rs |-> c.rs, changed |-> FALSE,
                            event_data |-> NULL, killed |-> FALSE]

(***************************************************************************)
(* Reports libgps can hand to the loop (the contents of data after a       *)
(* successful gps_read).                                                    *)
(***************************************************************************)
Report(set, mode, time, qErr, used, sats, beyond, tdop, delta) ==
    [set |-> set, fix_mode |-> mode, fix_time |-> time, fix_qErr |-> qErr,
     satellites_used |-> used, satellites_visible |-> Len(sats),
     skyview |-> Skyview(sats), beyond |-> beyond, tdop |-> tdop,
     toff |-> delta, pps |-> delta]

SatA == Sat(TRUE, 40, 3, 0)
SatB == Sat(TRUE, 20, 7, 2)
SatC == Sat(FALSE, 99, 9, 6)
\* what may lie behind the array: nothing used, or bytes that read as a used
\* satellite
SatX == Sat(TRUE, 50, 4, 3)
Sats == {SatA, SatB, SatC}

SatSeqs == UNION {[1..n -> Sats] : n \in 0..MaxChannels}
\* the number of satellites of s flagged used, as libgps counts them
RECURSIVE UsedCount(_)
UsedCount(s) ==
    IF s = << >> THEN 0
    ELSE (IF Head(s).used THEN 1 ELSE 0) + UsedCount(Tail(s))
\* skyview[MAXCHANNELS] is read only when the array is full
BeyondFor(s) == IF Len(s) = MaxChannels THEN {ZeroSat, SatX} ELSE {ZeroSat}

\* clock and real of a TOFF or PPS report: +0.4 s, -0.4 s, +0.6 s
Deltas ==
    {[clock |-> Timespec(100, 500000000), real |-> Timespec(100, 100000000)],
     [clock |-> Timespec(100, 100000000), real |-> Timespec(100, 500000000)],
     [clock |-> Timespec(101, 100000000), real |-> Timespec(100, 500000000)]}

\* a few reports, for the specification that explores the MQTT session
BasicReports ==
    {Report({}, MODE_NO_FIX, 10, 0, 0, << >>, ZeroSat, NaN, ZeroDelta),
     Report({}, 3, 10, 0, 1, << SatA >>, ZeroSat, Dbl(1), ZeroDelta)}

\* the same with an error report of gpsd, for the failures of the loop
FailureReports ==
    BasicReports
        \cup {Report({ERROR_SET}, 3, 10, 0, 1, << SatA >>, ZeroSat, Dbl(1),
                      ZeroDelta)}

\* fixes, for the specification that explores the change detection
FixReports ==
    {Report({}, 3, 10, 0, UsedCount(s), s, b, Dbl(1), ZeroDelta) :
        <<s, b>> \in {<<s, b>> \in SatSeqs \X {ZeroSat, SatX} : b \in BeyondFor(s)}}
    \cup {Report({}, m, 10, 0, u, << SatA >>, ZeroSat, t, ZeroDelta) :
            <<m, u, t>> \in {MODE_NO_FIX, 3} \X (0..2) \X {NaN, Dbl(1), Dbl(2)}}
    \cup {Report({}, 3, tm, q, 1, << SatA >>, ZeroSat, Dbl(1), ZeroDelta) :
            <<tm, q>> \in {10, 11} \X {0, 7}}

\* reports with every combination of the error, time-offset and PPS flags,
\* for the specification that explores the time deltas
TimingReports ==
    {Report(fl, g[1], 10, 0, g[2], << SatA >>, ZeroSat, Dbl(1), dl) :
        <<fl, g, dl>> \in (SUBSET {ERROR_SET, TOFF_SET, PPS_SET})
                          \X {<<3, 1>>, <<MODE_NO_FIX, 1>>, <<3, 0>>}
                          \X Deltas}
    \cup {Report({VERSION_SET, TOFF_SET}, 0, 0, 0, 0, << >>, ZeroSat, NaN, dl) :
            dl \in Deltas}

(***************************************************************************)
(* Snapshots create_mqtt_payload can be called on: run_state after a       *)
(* changed fix.  The histograms are those of a receiver with the full       *)
(* skyview of libgps; the time is a Unix time or a small number.            *)
(***************************************************************************)
SeenCounts == {1, 12}
SeenInputs ==
    {[g \in 0..(GNSSID_CNT - 1) |-> IF g \in S THEN c ELSE 0] :
        <<S, c>> \in (SUBSET (0..(GNSSID_CNT - 1))) \X SeenCounts}
TimeInputs == {10, 1700000000}
QErrInputs == {0, 7, -2000000000}
DiffInputs == {ZeroTs, Timespec(0, -400000000), Timespec(1700000000, 600000000)}

PayloadInputs ==
    {[ZeroRunState EXCEPT !.loop = TRUE,
                          !.time = in[1], !.qErr = in[2],
                          !.toff_diff = in[3], !.pps_diff = in[3],
                          !.sats_seen = in[4],
                          !.sats_used = 12, !.sats_visible = 14,
                          !.tdop = in[5], !.avg_snr = DblDiv(61, 2)] :
        in \in TimeInputs \X QErrInputs \X DiffInputs \X SeenInputs
                \X {NaN, Dbl(1)}}

(***************************************************************************)
(* Normalized instants TS_SUB can be called on.                             *)
(***************************************************************************)
Instants ==
    {Timespec(sec, ns) :
        <<sec, ns>> \in ((100 - MaxSecSpread)..(100 + MaxSecSpread))
                        \X {0, 100000000, 500000000, 999999999}}
\* normalized instants around zero, those before it with negative parts
SignedInstants ==
    {Timespec(sec, ns) :
        <<sec, ns>> \in {<<sec, ns>> \in (-1..1) \X {-999999999, -100000000, 0,
                                                     100000000, 999999999} :
                            /\ sec > 0 => ns >= 0
                            /\ sec < 0 => ns <= 0}}
TsInputs ==
    {[clock |-> c, real |-> r] : <<c, r>> \in Instants \X Instants}
    \cup {[clock |-> c, real |-> r] :
            <<c, r>> \in SignedInstants \X SignedInstants}

(***************************************************************************)
(* gpsd.c, built against gpsd API 9: struct gpsd_handle and gpsd_read_data. *)
(* The handle's gps_data_t has the fix time as a timespec, qErr of its own  *)
(* and the oscillator state osc.                                            *)
(***************************************************************************)
Osc(running, reference, disciplined, delta) ==
    [running |-> running, reference |-> reference,
     disciplined |-> disciplined, delta |-> delta]
ZeroOsc == Osc(FALSE, FALSE, FALSE, 0)

\* handle->gpsd after a read that delivered report d
GpsdData(d, packet, osc) ==
    [set |-> IF packet THEN d.set \cup {PACKET_SET} ELSE d.set,
     fix_mode |-> d.fix_mode, fix_time |-> Timespec(d.fix_time, 0),
     qErr |-> d.fix_qErr,
     satellites_used |-> d.satellites_used,
     satellites_visible |-> d.satellites_visible,
     skyview |-> d.skyview, beyond |-> d.beyond, tdop |-> d.tdop,
     toff |-> d.toff, pps |-> d.pps, osc |-> osc]

\* bzero(handle, sizeof(gpsd_handle_t))
\* ++ on a uint32_t: 4294967295, that is 65535 * 65536 + 65535, is followed
\* by 0
UInt32Inc(n) ==
    IF n \div 65536 = 65535 /\ n % 65536 = 65535 THEN 0 ELSE n + 1

ZeroGpsdHandle ==
    [gpsd |-> GpsdData(ZeroData, FALSE, ZeroOsc),
     toff_diff |-> ZeroTs, pps_diff |-> ZeroTs,
     gpsd_events_recv |-> 0, gpsd_events_send |-> 0, gpsd_last_event |-> 0]

\* the char *result of the caller: "untouched", "payload" (it points to a
\* rendered payload), "freed" (it points to the buffer BUFFER_ADD freed) or
\* "null" (it holds the NULL a failed malloc returned)
Untouched == [state |-> "untouched", fields |-> NULL]

\* the body of the loop of create_event_payload for index i
ScanSatEvent(acc, sat) ==
    IF ~sat.used
    THEN acc
    ELSE [snr_total |-> IF sat.ss >= 0 THEN acc.snr_total + sat.ss
                        ELSE acc.snr_total,
          sats_seen |-> IF sat.svid # 0 /\ sat.gnssid < GNSSID_CNT
                        THEN [acc.sats_seen EXCEPT ![sat.gnssid] = (@ + 1) % 256]
                        ELSE acc.sats_seen]

\* for (i = 0; i <= handle->gpsd.satellites_visible; i++), from index i on
RECURSIVE ScanFromEvent(_, _, _)
ScanFromEvent(d, i, acc) ==
    IF i <= d.satellites_visible
    THEN ScanFromEvent(d, i + 1, ScanSatEvent(acc, SkyAt(d, i)))
    ELSE acc

\* the oscillator fields, written for a running oscillator
AddOsc(buf, osc) ==
    IF ~osc.running
    THEN buf
    ELSE LET o1 == BUFFER_ADD(buf, IF osc.reference THEN 15 ELSE 16,
                              << FieldBool("osc.pps", osc.reference) >>)
             o2 == BUFFER_ADD(o1, IF osc.disciplined THEN 15 ELSE 16,
                              << FieldBool("osc.gps", osc.disciplined) >>)
         IN  BUFFER_ADD(o2, 13, << FieldInt("osc.delta", osc.delta) >>)

\* its return value and what *buffer is left pointing to.  allocated: the
\* malloc of line 208 returned a buffer.  The result of malloc is not
\* checked: on NULL the first BUFFER_ADD writes through it and the process
\* is killed, so nothing is returned
create_event_payload(allocated, h) ==
    LET d == h.gpsd
        scan == ScanFromEvent(d, 0, [snr_total |-> 0, sats_seen |-> ZeroSeen])
        snr_avg == IF d.satellites_used > 0
                   THEN DblDiv(scan.snr_total, d.satellites_used)
                   ELSE Dbl(0)
        b0 == [ok |-> allocated, offset |-> 0, fields |-> << >>]
        b1 == BUFFER_ADD(b0, 1, << >>)
        b2 == BUFFER_ADD(b1, 8, << FieldInt("time", d.fix_time.tv_sec),
                                   FieldNsec("time.nsec", d.fix_time.tv_nsec) >>)
        b3 == BUFFER_ADD(b2, 48,
                         << FieldInt("sats_used", d.satellites_used),
                            FieldInt("sats_visible", d.satellites_visible),
                            FieldDbl("tdop", d.tdop),
                            FieldDbl("avg_snr", snr_avg) >>)
        b4 == IF d.qErr # 0
              THEN BUFFER_ADD(b3, 8, << FieldInt("qErr", d.qErr) >>)
              ELSE b3
        b5 == BUFFER_ADD(b4, 8, << FieldTs("toff", h.toff_diff) >>)
        b6 == BUFFER_ADD(b5, 7, << FieldTs("pps", h.pps_diff) >>)
        b7 == AddOsc(b6, d.osc)
        b8 == AddSeen(b7, [sats_seen |-> scan.sats_seen], 0)
        b9 == BUFFER_ADD(b8, 1, << FieldClose >>)
    IN  CHOOSE e \in
            {IF ~allocated
             THEN [rv |-> 0, result |-> [state |-> "null", fields |-> NULL],
                   killed |-> TRUE]
             ELSE IF b.ok
             THEN [rv |-> b.offset,
                   result |-> [state |-> "payload", fields |-> b.fields],
                   killed |-> FALSE]
             ELSE [rv |-> 0 - ENOMEM,
                   result |-> [state |-> "freed", fields |-> NULL],
                   killed |-> FALSE] :
                b \in {b9}} : TRUE

\* what gps_read returns: below 0, 0 or the number of bytes read
GPS_READ_FAILED == "GPS_READ_FAILED"
GPS_NO_DATA == "GPS_NO_DATA"
GPS_DATA == "GPS_DATA"

\* mutant: a failed read is counted as an event before it is reported
ReadFailed_Counted(h, t) ==
    [handle |-> [h EXCEPT !.gpsd_events_recv = UInt32Inc(@),
                          !.gpsd_last_event = t],
     rv |-> 0 - ENOTCONN, result |-> Untouched, killed |-> FALSE]

\* lines 274-276: gps_read failed
ReadFailed(h, t) ==
    [handle |-> h, rv |-> 0 - ENOTCONN, result |-> Untouched,
     killed |-> FALSE]

\* mutant: an error report is answered like a broken connection
ErrorReport_NeedsReconnect(h, d) ==
    [handle |-> [h EXCEPT !.gpsd = d], rv |-> 0 - ENOTCONN,
     result |-> Untouched, killed |-> FALSE]

\* lines 282-285: the report read is an error report
ErrorReport(h, d) ==
    [handle |-> [h EXCEPT !.gpsd = d], rv |-> 0 - EIO, result |-> Untouched,
     killed |-> FALSE]

\* gpsd_read_data(handle, &result) at time t, when gps_read returns status
\* and, for GPS_DATA, leaves d in handle->gpsd: the handle after the call,
\* the return value and *result.  valid: handle is not NULL.  allocated: a
\* malloc made by the call returns a buffer.  killed: the process died in
\* the call, after the writes to the handle, and rv is not returned
gpsd_read_data(valid, h, status, d, t, allocated) ==
    IF ~valid
    THEN [handle |-> h, rv |-> 0 - EINVAL, result |-> Untouched,
          killed |-> FALSE]
    ELSE IF status = GPS_READ_FAILED
    THEN ReadFailed(h, t)
    ELSE IF status = GPS_NO_DATA
    THEN [handle |-> h, rv |-> 0, result |-> Untouched, killed |-> FALSE]
    ELSE IF ERROR_SET \in d.set
    THEN ErrorReport(h, d)
    ELSE LET h1 == [h EXCEPT !.gpsd = d,
                             !.gpsd_events_recv = UInt32Inc(@),
                             !.gpsd_last_event = t]
         IN  IF PACKET_SET \notin d.set
             THEN [handle |-> h1, rv |-> 0, result |-> Untouched,
                   killed |-> FALSE]
             ELSE LET h2 == [h1 EXCEPT
                               !.toff_diff = TS_SUB(d.toff.clock, d.toff.real),
                               !.pps_diff = TS_SUB(d.pps.clock, d.pps.real),
                               !.gpsd.set = {}]
                  IN  IF Qualifies(d)
                      THEN LET h3 == [h2 EXCEPT
                                        !.gpsd_events_send = UInt32Inc(@)]
                           IN  CHOOSE r \in
                                   {[handle |-> h3, rv |-> e.rv,
                                     result |-> e.result,
                                     killed |-> e.killed] :
                                      e \in {create_event_payload(allocated,
                                                                   h3)}} : TRUE
                      ELSE [handle |-> h2, rv |-> 0, result |-> Untouched,
                            killed |-> FALSE]

\* a fix whose payload does not fit the buffer of create_event_payload.  A
\* receiver reaches that width with all eight constellations in view; with
\* the skyview of the model it takes numbers as wide as their types allow
LongReport ==
    GpsdData(Report({}, 3, 1700000000, -2000000000, 2,
                    << Sat(TRUE, 2000000000, 3, 0), SatB >>, ZeroSat,
                    Dbl(2000000000),
                    [clock |-> Timespec(0, 0),
                     real |-> Timespec(1700000000, 0)]),
             TRUE, Osc(TRUE, FALSE, FALSE, -2000000000))

\* what a read can leave in handle->gpsd
GpsdReports ==
    {GpsdData(Report(fl, g[1], 10, q, g[2], << SatA >>, ZeroSat, Dbl(1), dl),
              pk, o) :
        <<fl, g, q, dl, pk, o>> \in
            {{}, {ERROR_SET}, {VERSION_SET}}
            \X {<<3, 1>>, <<MODE_NO_FIX, 1>>, <<3, 0>>}
            \X {0, 7}
            \X {ZeroDelta,
                [clock |-> Timespec(100, 100000000),
                 real |-> Timespec(100, 500000000)]}
            \X BOOLEAN
            \X {ZeroOsc, Osc(TRUE, TRUE, FALSE, -3)}}
    \cup {LongReport}

(***************************************************************************)
(* mqtt.c: struct mqtt_handle and the functions that hand a status of       *)
(* libmosquitto to their caller.  mqtt.c has a mqtt_needs_to_reconnect of   *)
(* its own, the same as that of main.c.                                     *)
(***************************************************************************)
\* bzero(handle, sizeof(mqtt_handle_t))
ZeroMqttHandle == [mqtt_events_send |-> 0, mqtt_last_event |-> 0]

\* statuses the library calls of mqtt.c return
MqttStatuses ==
    {MOSQ_ERR_SUCCESS} \cup MosqErrors
        \cup {"MOSQ_ERR_CONN_PENDING", "MOSQ_ERR_PAYLOAD_SIZE"}

\* mqtt_read_data, when mosquitto_loop_read returns status.  valid: handle
\* is not NULL
mqtt_read_data(valid, status) ==
    IF ~valid
    THEN 0 - EINVAL
    ELSE IF status # MOSQ_ERR_SUCCESS
    THEN IF mqtt_needs_to_reconnect(status)
         THEN 0 - ENOTCONN ELSE 0 - ENOTRECOVERABLE
    ELSE 0

\* mqtt_write_data, when mosquitto_loop_write returns status.  valid: handle
\* is not NULL
mqtt_write_data(valid, status) ==
    IF ~valid
    THEN 0 - EINVAL
    ELSE IF status # MOSQ_ERR_SUCCESS
    THEN IF mqtt_needs_to_reconnect(status)
         THEN 0 - ENOTCONN ELSE 0 - ENOTRECOVERABLE
    ELSE 0

\* mutant: every failure asks for a reconnect
mqtt_misc_loop_AlwaysReconnect(valid, status) ==
    IF ~valid
    THEN 0 - EINVAL
    ELSE IF status # MOSQ_ERR_SUCCESS THEN 0 - ENOTCONN ELSE 0

\* mqtt_misc_loop, when mosquitto_loop_misc returns status.  valid: handle
\* is not NULL
mqtt_misc_loop(valid, status) ==
    IF ~valid
    THEN 0 - EINVAL
    ELSE IF status # MOSQ_ERR_SUCCESS
    THEN IF mqtt_needs_to_reconnect(status)
         THEN 0 - ENOTCONN ELSE 0 - ENOTRECOVERABLE
    ELSE 0

\* mutant: the event is counted before the publish is tried
mqtt_send_event_CountsFirst(valid, h, status, t) ==
    LET h1 == [h EXCEPT !.mqtt_events_send = UInt32Inc(@),
                        !.mqtt_last_event = t]
    IN  IF ~valid
        THEN [handle |-> h, rv |-> 0 - EINVAL]
        ELSE IF status # MOSQ_ERR_SUCCESS
        THEN [handle |-> h1,
              rv |-> IF mqtt_needs_to_reconnect(status)
                     THEN 0 - ENOTCONN ELSE 0 - ENOTRECOVERABLE]
        ELSE [handle |-> h1, rv |-> 0]

\* mqtt_send_event at time t, when mosquitto_publish returns status: the
\* handle after the call and the return value.  valid: handle is not NULL
mqtt_send_event(valid, h, status, t) ==
    IF ~valid
    THEN [handle |-> h, rv |-> 0 - EINVAL]
    ELSE IF status # MOSQ_ERR_SUCCESS
    THEN [handle |-> h,
          rv |-> IF mqtt_needs_to_reconnect(status)
                 THEN 0 - ENOTCONN ELSE 0 - ENOTRECOVERABLE]
    ELSE [handle |-> [h EXCEPT !.mqtt_events_send = UInt32Inc(@),
                               !.mqtt_last_event = t],
          rv |-> 0]

(***************************************************************************)
(* gpsd.c and mqtt.c: the connections of the two handles and their         *)
(* statistics.  A handle is NULL when its _init returned NULL.              *)
(***************************************************************************)
\* gps_fd of a session libgps has opened, and of one it has closed or failed
\* to open
GPS_FD_OPEN == 3
GPS_FD_NONE == -1

\* mutant: a new connection starts the statistics of the handle afresh
gpsd_connect_ResetsStats(valid, h, fd, open, stream) ==
    IF ~valid
    THEN [handle |-> h, gps_fd |-> fd, rv |-> 0 - EINVAL]
    ELSE IF open < 0
    THEN [handle |-> h, gps_fd |-> GPS_FD_NONE, rv |-> 0 - ENOTCONN]
    ELSE [handle |-> [h EXCEPT !.gpsd_events_recv = 0, !.gpsd_events_send = 0],
          gps_fd |-> GPS_FD_OPEN,
          rv |-> IF stream < 0 THEN 0 - ENOTCONN ELSE 0]

\* gpsd_connect, when gps_open and gps_stream return open and stream (0 or
\* -1): the handle and its gps_fd after the call and the return value.  A
\* session whose stream options fail stays open
gpsd_connect(valid, h, fd, open, stream) ==
    IF ~valid
    THEN [handle |-> h, gps_fd |-> fd, rv |-> 0 - EINVAL]
    ELSE IF open < 0
    THEN [handle |-> h, gps_fd |-> GPS_FD_NONE, rv |-> 0 - ENOTCONN]
    ELSE IF stream < 0
    THEN [handle |-> h, gps_fd |-> GPS_FD_OPEN, rv |-> 0 - ENOTCONN]
    ELSE [handle |-> h, gps_fd |-> GPS_FD_OPEN, rv |-> 0]

\* mutant: a failure to close is handed to the caller
gpsd_disconnect_Propagates(valid, h, fd, stream, close) ==
    IF ~valid
    THEN [handle |-> h, gps_fd |-> fd, rv |-> 0 - EINVAL]
    ELSE IF fd < 0
    THEN [handle |-> h, gps_fd |-> fd, rv |-> 0]
    ELSE [handle |-> h, gps_fd |-> GPS_FD_NONE,
          rv |-> IF close < 0 THEN 0 - ENOTCONN ELSE 0]

\* gpsd_disconnect, when gps_stream(WATCH_DISABLE) and gps_close return
\* stream and close: both are called for a gps_fd that is not negative and
\* their failures are logged; gps_close leaves gps_fd at -1
gpsd_disconnect(valid, h, fd, stream, close) ==
    IF ~valid
    THEN [handle |-> h, gps_fd |-> fd, rv |-> 0 - EINVAL]
    ELSE IF fd < 0
    THEN [handle |-> h, gps_fd |-> fd, rv |-> 0]
    ELSE [handle |-> h, gps_fd |-> GPS_FD_NONE, rv |-> 0]

\* gpsd_dump_stats: the statistics it returns
gpsd_dump_stats(valid, h) ==
    IF ~valid
    THEN << FieldInt("events_recv", 0), FieldInt("events_send", 0),
            FieldInt("last_event", 0) >>
    ELSE << FieldInt("events_recv", h.gpsd_events_recv),
            FieldInt("events_send", h.gpsd_events_send),
            FieldInt("last_event", h.gpsd_last_event) >>

\* gpsd_init: whether it returns a handle, the zeroed handle and its gps_fd.
\* Without a handle there is no descriptor: gpsd_fd(NULL) is negative
gpsd_init(malloc_ok) ==
    IF ~malloc_ok
    THEN [alloc |-> FALSE, handle |-> ZeroGpsdHandle, gps_fd |-> GPS_FD_NONE]
    ELSE [alloc |-> TRUE, handle |-> ZeroGpsdHandle, gps_fd |-> 0]

\* gpsd_destroy: the handle is freed, with its counters; a session that is
\* open is not closed
gpsd_destroy(valid, h, fd) ==
    [alloc |-> FALSE, handle |-> ZeroGpsdHandle, gps_fd |-> GPS_FD_NONE]

\* config_t, as far as mqtt_init looks at it
Config(use_tls, use_auth) == [use_tls |-> use_tls, use_auth |-> use_auth]
Configs == {Config(t, a) : <<t, a>> \in BOOLEAN \X BOOLEAN}

\* no mqtt_handle_t: before mqtt_init, and after mqtt_init has destroyed it
NoClient ==
    [handle |-> FALSE, tls_insecure |-> FALSE, tls_opts |-> FALSE,
     tls_set |-> FALSE, auth |-> FALSE, attempts |-> 0, conn |-> "down"]
\* the handle with the struct mosquitto of mosquitto_new
NewClient == [NoClient EXCEPT !.handle = TRUE]

\* what the library calls of mqtt_init return: mosquitto_new a client or
\* NULL, the others a status
InitStatus(new, insecure, opts, tls, auth) ==
    [new |-> new, insecure |-> insecure, opts |-> opts, tls |-> tls,
     auth |-> auth]

\* lines 99-121: the TLS parameters; the first failure destroys the handle
ApplyTls(c, st) ==
    IF st.insecure # MOSQ_ERR_SUCCESS
    THEN NoClient
    ELSE IF st.opts # MOSQ_ERR_SUCCESS
    THEN NoClient
    ELSE IF st.tls # MOSQ_ERR_SUCCESS
    THEN NoClient
    ELSE [c EXCEPT !.tls_insecure = TRUE, !.tls_opts = TRUE, !.tls_set = TRUE]

\* lines 123-131: the credentials
ApplyAuth(c, st) ==
    IF st.auth # MOSQ_ERR_SUCCESS
    THEN NoClient
    ELSE [c EXCEPT !.auth = TRUE]

\* mqtt_init(cfg): the handle it returns, NoClient for NULL
mqtt_init(cfg, st) ==
    IF ~st.new
    THEN NoClient
    ELSE LET c1 == IF cfg.use_tls THEN ApplyTls(NewClient, st) ELSE NewClient
         IN  IF ~c1.handle
             THEN NoClient
             ELSE IF cfg.use_auth THEN ApplyAuth(c1, st) ELSE c1

\* mqtt_destroy: the client of the handle is destroyed, and its connection
\* with it, and the handle is freed; for NULL there is nothing to free
mqtt_destroy(c) == NoClient

\* mqtt_connect, when mosquitto_connect returns status
mqtt_connect(c, status) ==
    IF ~c.handle
    THEN [client |-> c, rv |-> 0 - EINVAL]
    ELSE IF status # MOSQ_ERR_SUCCESS
    THEN [client |-> [c EXCEPT !.attempts = @ + 1, !.conn = "down"],
          rv |-> 0 - ENOTCONN]
    ELSE [client |-> [c EXCEPT !.attempts = @ + 1, !.conn = "up"], rv |-> 0]

\* mutant: the status of the close is logged only
mqtt_disconnect_LogsOnly(c, status) ==
    IF ~c.handle
    THEN [client |-> c, rv |-> 0 - EINVAL]
    ELSE [client |-> [c EXCEPT !.conn = "down"], rv |-> 0]

\* mqtt_disconnect, when mosquitto_disconnect returns status.  handle->mosq
\* is NULL in a destroyed handle only, so line 174 never holds for a handle
\* the caller has
mqtt_disconnect(c, status) ==
    IF ~c.handle
    THEN [client |-> c, rv |-> 0 - EINVAL]
    ELSE IF status # MOSQ_ERR_SUCCESS /\ status # "MOSQ_ERR_NO_CONN"
    THEN [client |-> [c EXCEPT !.conn = "down"], rv |-> 0 - ENOTCONN]
    ELSE [client |-> [c EXCEPT !.conn = "down"], rv |-> 0]

\* mqtt_dump_stats: the statistics it returns
mqtt_dump_stats(valid, h) ==
    IF ~valid
    THEN << FieldInt("events_send", 0), FieldInt("last_event", 0) >>
    ELSE << FieldInt("events_send", h.mqtt_events_send),
            FieldInt("last_event", h.mqtt_last_event) >>

(***************************************************************************)
(* config.c: read_config over the events of the YAML parser.  A char * of  *)
(* config_t is modelled by its string, NULL by the empty string: safe_strdup*)
(* never stores an empty string.                                            *)
(***************************************************************************)
\* enum config_block
ROOT == "ROOT"
DAEMON == "DAEMON"
GPSD == "GPSD"
MQTT == "MQTT"
MQTT_AUTH == "MQTT_AUTH"
MQTT_TLS == "MQTT_TLS"

\* safe_strdup: NULL for an empty value
safe_strdup(val) == val

\* the value of a decimal digit, -1 for any other character
DigitOf(c) ==
    CASE c = "0" -> 0 [] c = "1" -> 1 [] c = "2" -> 2 [] c = "3" -> 3
      [] c = "4" -> 4 [] c = "5" -> 5 [] c = "6" -> 6 [] c = "7" -> 7
      [] c = "8" -> 8 [] c = "9" -> 9 [] OTHER -> -1

\* the first index of s, from i on, that holds no white space (isspace; a
\* vertical tab, which a string of TLA+ cannot hold, is white space too)
RECURSIVE SkipSpace(_, _)
SkipSpace(s, i) ==
    IF i <= Len(s) /\ SubSeq(s, i, i) \in {" ", "\t", "\n", "\r", "\f"}
    THEN SkipSpace(s, i + 1)
    ELSE i

\* strtol over the digits of s from index i on.  The long is kept in four
\* limbs of 16 bits, l0 the lowest, each decimal digit multiplying them by
\* 10 with the carry of the limb below; sat is set once the value has passed
\* LONG_MAX.  The result is the low 32 bits as an int, and sat
RECURSIVE StrtolDigits(_, _, _, _, _, _, _)
StrtolDigits(s, i, l0, l1, l2, l3, sat) ==
    IF i > Len(s) \/ DigitOf(SubSeq(s, i, i)) < 0
    THEN [low |-> IF l1 >= 32768 THEN (l1 - 65536) * 65536 + l0
                  ELSE l1 * 65536 + l0,
          sat |-> sat]
    ELSE StrtolDigits(
            s, i + 1,
            (l0 * 10 + DigitOf(SubSeq(s, i, i))) % 65536,
            (l1 * 10 + (l0 * 10 + DigitOf(SubSeq(s, i, i))) \div 65536)
                % 65536,
            (l2 * 10
                + (l1 * 10 + (l0 * 10 + DigitOf(SubSeq(s, i, i))) \div 65536)
                    \div 65536) % 65536,
            (l3 * 10
                + (l2 * 10
                    + (l1 * 10
                        + (l0 * 10 + DigitOf(SubSeq(s, i, i))) \div 65536)
                        \div 65536) \div 65536) % 65536,
            sat \/ l3 * 10
                    + (l2 * 10
                        + (l1 * 10
                            + (l0 * 10 + DigitOf(SubSeq(s, i, i)))
                                \div 65536) \div 65536) \div 65536
                   >= 32768)

\* (int) of the long strtol returns for the digits r, negated after a minus
\* sign: LONG_MAX and LONG_MIN when the digits pass them, of which the low
\* 32 bits are -1 and 0
IntOf(r, minus) ==
    IF r.sat
    THEN IF minus THEN 0 ELSE -1
    ELSE IF minus /\ r.low # (0 - 32768) * 65536
    THEN 0 - r.low
    ELSE r.low

\* atoi of the C library, (int) strtol(val, NULL, 10): white space, a sign,
\* then the digits up to the first other character, 0 without any
atoi(val) ==
    CHOOSE n \in
        {IF i <= Len(val) /\ SubSeq(val, i, i) \in {"-", "+"}
         THEN IntOf(StrtolDigits(val, i + 1, 0, 0, 0, 0, FALSE),
                    SubSeq(val, i, i) = "-")
         ELSE IntOf(StrtolDigits(val, i, 0, 0, 0, 0, FALSE), FALSE) :
            i \in {SkipSpace(val, 1)}} : TRUE

\* safe_atoi: -1 for an empty value
safe_atoi(val) == IF val = "" THEN -1 ELSE atoi(val)

\* safe_atob: the first four characters are "true" or the first three
\* "yes", compared without case (strncasecmp)
safe_atob(val) ==
    \/ /\ Len(val) >= 4
       /\ SubSeq(val, 1, 1) \in {"t", "T"}
       /\ SubSeq(val, 2, 2) \in {"r", "R"}
       /\ SubSeq(val, 3, 3) \in {"u", "U"}
       /\ SubSeq(val, 4, 4) \in {"e", "E"}
    \/ /\ Len(val) >= 3
       /\ SubSeq(val, 1, 1) \in {"y", "Y"}
       /\ SubSeq(val, 2, 2) \in {"e", "E"}
       /\ SubSeq(val, 3, 3) \in {"s", "S"}

\* the users and groups getpwnam and getgrnam find
KnownUsers == {"root", "nobody"}
KnownGroups == {"root", "nogroup"}

\* init_config: the defaults
init_config ==
    [gpsd_host |-> "", gpsd_port |-> "", gpsd_device |-> "",
     client_id |-> "", mqtt_host |-> "", mqtt_port |-> 0, qos |-> 1,
     retain |-> FALSE, use_auth |-> FALSE, use_tls |-> FALSE,
     username |-> "", password |-> "",
     cacertpath |-> "", cacertfile |-> "", certfile |-> "", keyfile |-> "",
     tls_version |-> "", ciphers |-> "", verify_peer |-> TRUE]

\* the locals of read_config after YAML_STREAM_START_EVENT
ParserStart ==
    [cblock |-> ROOT, key_expected |-> FALSE, key |-> "",
     cfg |-> init_config, error |-> FALSE]

\* PARSE_ERROR
PARSE_ERROR(st) == [st EXCEPT !.error = TRUE]

\* lines 242-316: the value val of the key st.key
KeyValue(st, val) ==
    LET k == st.key
        b == st.cblock
        set(c) == [st EXCEPT !.cfg = c, !.key_expected = TRUE]
        cfg == st.cfg
    IN  IF k = "user" /\ b = DAEMON
        THEN IF val \in KnownUsers THEN set(cfg) ELSE PARSE_ERROR(st)
        ELSE IF k = "group" /\ b = DAEMON
        THEN IF val \in KnownGroups THEN set(cfg) ELSE PARSE_ERROR(st)
        ELSE IF k = "host" /\ b = GPSD
        THEN set([cfg EXCEPT !.gpsd_host = safe_strdup(val)])
        ELSE IF k = "port" /\ b = GPSD
        THEN IF safe_atoi(val) < 1 \/ safe_atoi(val) > 65535
             THEN PARSE_ERROR(st)
             ELSE set([cfg EXCEPT !.gpsd_port = safe_strdup(val)])
        ELSE IF k = "device" /\ b = GPSD
        THEN set([cfg EXCEPT !.gpsd_device = safe_strdup(val)])
        ELSE IF k = "client_id" /\ b = MQTT
        THEN set([cfg EXCEPT !.client_id = safe_strdup(val)])
        ELSE IF k = "host" /\ b = MQTT
        THEN set([cfg EXCEPT !.mqtt_host = safe_strdup(val)])
        ELSE IF k = "port" /\ b = MQTT
        THEN IF safe_atoi(val) < 1 \/ safe_atoi(val) > 65535
             THEN PARSE_ERROR(st)
             ELSE set([cfg EXCEPT !.mqtt_port = safe_atoi(val) % 65536])
        ELSE IF k = "qos" /\ b = MQTT
        THEN IF safe_atoi(val) < 0 \/ safe_atoi(val) > 2
             THEN PARSE_ERROR(st)
             ELSE set([cfg EXCEPT !.qos = safe_atoi(val) % 256])
        ELSE IF k = "retain" /\ b = MQTT
        THEN set([cfg EXCEPT !.retain = safe_atob(val)])
        ELSE IF k = "username" /\ b = MQTT_AUTH
        THEN set([cfg EXCEPT !.username = safe_strdup(val), !.use_auth = TRUE])
        ELSE IF k = "password" /\ b = MQTT_AUTH
        THEN set([cfg EXCEPT !.password = safe_strdup(val), !.use_auth = TRUE])
        ELSE IF k = "ca_cert_path" /\ b = MQTT_TLS
        THEN set([cfg EXCEPT !.cacertpath = safe_strdup(val), !.use_tls = TRUE])
        ELSE IF k = "ca_cert_file" /\ b = MQTT_TLS
        THEN set([cfg EXCEPT !.cacertfile = safe_strdup(val), !.use_tls = TRUE])
        ELSE IF k = "cert_file" /\ b = MQTT_TLS
        THEN set([cfg EXCEPT !.certfile = safe_strdup(val), !.use_tls = TRUE])
        ELSE IF k = "key_file" /\ b = MQTT_TLS
        THEN set([cfg EXCEPT !.keyfile = safe_strdup(val), !.use_tls = TRUE])
        ELSE IF k = "verify_peer" /\ b = MQTT_TLS
        THEN set([cfg EXCEPT !.verify_peer = safe_atob(val), !.use_tls = TRUE])
        ELSE IF k = "tls_version" /\ b = MQTT_TLS
        THEN set([cfg EXCEPT !.tls_version = safe_strdup(val), !.use_tls = TRUE])
        ELSE IF k = "ciphers" /\ b = MQTT_TLS
        THEN set([cfg EXCEPT !.ciphers = safe_strdup(val), !.use_tls = TRUE])
        ELSE PARSE_ERROR(st)

\* lines 329-370, after YAML_STREAM_END_EVENT: the defaults and the
\* validations
Validate(st) ==
    LET c0 == st.cfg
        c1 == [c0 EXCEPT
                 !.client_id = IF @ = "" THEN "gpsstats" ELSE @,
                 !.gpsd_host = IF @ = "" THEN "localhost" ELSE @,
                 !.gpsd_port = IF @ = "" THEN "2947" ELSE @,
                 !.mqtt_host = IF @ = "" THEN "localhost" ELSE @,
                 !.mqtt_port = IF @ = 0
                               THEN (IF c0.use_tls THEN 8883 ELSE 1883)
                               ELSE @]
        c2 == IF c1.use_tls /\ c1.tls_version = ""
              THEN [c1 EXCEPT !.tls_version = "tlsv1.2"]
              ELSE c1
    IN  IF c1.use_auth /\ ((c1.username = "") # (c1.password = ""))
        THEN PARSE_ERROR(st)
        ELSE IF c1.use_tls /\ c1.cacertpath = "" /\ c1.cacertfile = ""
        THEN PARSE_ERROR([st EXCEPT !.cfg = c2])
        ELSE IF c1.use_tls /\ ((c1.certfile = "") # (c1.keyfile = ""))
        THEN PARSE_ERROR([st EXCEPT !.cfg = c2])
        ELSE [st EXCEPT !.cfg = c2]

\* read_config leaves its loop: cfg, or NULL after an error
Return(st) == [done |-> TRUE, null |-> st.error, killed |-> FALSE, st |-> st]
\* one more turn of the loop unless PARSE_ERROR jumped to cleanup
Turn(st) == IF st.error THEN Return(st)
            ELSE [done |-> FALSE, null |-> FALSE, killed |-> FALSE, st |-> st]

\* char key[64]
KEY_SIZE == 64

\* lines 238-240 with len >= sizeof key: strncpy and key[len] = 0 write past
\* the end of key, which is undefined.  The build either kills the process
\* (the write leaves the stack, or hits what the return needs), or goes on
\* with the key in place and with whatever the bytes written have made of
\* the locals that lie next to key: cblock (a value of the enum or one
\* outside it), error and done (done set ends the loop after this event,
\* error set makes cleanup return NULL); key_expected is assigned after the
\* writes.  A process that was killed has returned nothing
KeyOverflow(st, val) ==
    {[done |-> TRUE, null |-> TRUE, killed |-> TRUE, st |-> st]} \cup
    {IF done THEN Return(Validate(l)) ELSE Turn(l) :
        l \in {[st EXCEPT !.key = val, !.key_expected = FALSE,
                          !.cblock = b, !.error = e] :
                  b \in {ROOT, DAEMON, GPSD, MQTT, MQTT_AUTH, MQTT_TLS,
                         "OUT_OF_ENUM"},
                  e \in BOOLEAN},
        done \in BOOLEAN}

\* case YAML_SCALAR_EVENT with the value val: the results the event can have
ScalarEvent(st, val) ==
    IF val = "daemon" /\ st.cblock = ROOT
    THEN {Turn([st EXCEPT !.cblock = DAEMON])}
    ELSE IF val = "gpsd" /\ st.cblock = ROOT
    THEN {Turn([st EXCEPT !.cblock = GPSD])}
    ELSE IF val = "mqtt" /\ st.cblock = ROOT
    THEN {Turn([st EXCEPT !.cblock = MQTT])}
    ELSE IF val = "auth" /\ st.cblock = MQTT
    THEN {Turn([st EXCEPT !.cblock = MQTT_AUTH])}
    ELSE IF val = "tls" /\ st.cblock = MQTT
    THEN {Turn([st EXCEPT !.cblock = MQTT_TLS])}
    ELSE IF st.key_expected
    THEN IF Len(val) >= KEY_SIZE
         THEN KeyOverflow(st, val)
         ELSE {Turn([st EXCEPT !.key = val, !.key_expected = FALSE])}
    ELSE {Turn(KeyValue(st, val))}

\* case YAML_MAPPING_START_EVENT
MappingStartEvent(st) == [st EXCEPT !.key_expected = TRUE]

\* case YAML_MAPPING_END_EVENT
MappingEndEvent(st) ==
    IF st.cblock = MQTT_AUTH \/ st.cblock = MQTT_TLS
    THEN [st EXCEPT !.cblock = MQTT]
    ELSE [st EXCEPT !.cblock = ROOT]

(***************************************************************************)
(* State.                                                                   *)
(*   pc            where main stands: "connect" (line 376), "top" (383),   *)
(*                 "pump" (388), "gps" (390), "cleanup" (423), "done";     *)
(*                 "killed" when the process has died                       *)
(*   now           time(NULL)                                               *)
(*   run_state     the global run_state                                     *)
(*   data          main's struct gps_data_t                                 *)
(*   mosq_conn     libmosquitto: "up" when the client holds a connection   *)
(*   gps_link      libgps: "up", "broken" once a read has failed on the    *)
(*                 open session, "closed" after gps_close                   *)
(*   rc_reconnect  the last iteration's reconnect_mqtt: "not_called",      *)
(*                 "not_due" (returned 1), "failed" (-1), "ok" (0)         *)
(*   fails         failed reconnect attempts since the last success        *)
(*   gps_status    the last GPS step main completed: "none", "no_data",    *)
(*                 "read_failed", "read"                                    *)
(*   changed       what gps_stats_changed returned in the last GPS step    *)
(*                 (FALSE when it was not called)                           *)
(*   event_data    the payload of the last GPS step, or NULL               *)
(*   pub_status    the status of its mosquitto_publish, "none" if none     *)
(* For the specifications that run one function on inputs of its own:      *)
(*   arg           the input of the function                                *)
(*   res           what the function has produced                           *)
(* For the specifications that call the functions of gpsd.c and mqtt.c:    *)
(*   gpsd_handle   the struct gpsd_handle                                   *)
(*   mqtt_handle   the struct mqtt_handle                                   *)
(*   ret           the call in progress: the function, the status of its   *)
(*                 library call, its return value and the caller's *result *)
(*                 (a call the process died in returns nothing: pc is      *)
(*                 "killed" and rv is no return value)                      *)
(*   gpsd_alloc    the caller holds a gpsd_handle_t: gpsd_init returned    *)
(*                 one and gpsd_destroy has not freed it                    *)
(*   gps_fd        (handle->gpsd).gps_fd, the descriptor of the GPS session *)
(*   client        the mqtt_handle_t the caller holds and its struct       *)
(*                 mosquitto: what has been applied to it, the connection  *)
(*                 attempts made with it and whether it is connected       *)
(*   config        the config_t the program was started with               *)
(* History:                                                                 *)
(*   signalled     a SIGTERM, SIGQUIT or SIGINT has been delivered          *)
(***************************************************************************)
VARIABLES pc, now, run_state, data, mosq_conn, gps_link, rc_reconnect, fails,
          gps_status, changed, event_data, pub_status, arg, res,
          gpsd_handle, mqtt_handle, ret, gps_fd, client, config, signalled,
          gpsd_alloc

vars == <<pc, now, run_state, data, mosq_conn, gps_link, rc_reconnect, fails,
          gps_status, changed, event_data, pub_status, arg, res,
          gpsd_handle, mqtt_handle, ret, gps_fd, client, config, signalled,
          gpsd_alloc>>

\* the variables of the main loop
main_vars == <<pc, now, run_state, data, mosq_conn, gps_link, rc_reconnect,
               fails, gps_status, changed, event_data, pub_status, signalled>>
\* the variables of the single functions
fun_vars == <<arg, res>>
\* the variables of the handles of gpsd.c and mqtt.c
mod_vars == <<gpsd_handle, mqtt_handle, ret, gps_fd, client, config,
              gpsd_alloc>>
\* the connections of the two handles and the configuration
sess_vars == <<gps_fd, client, config, gpsd_alloc>>

gps_vars == <<data, gps_link, gps_status, changed, event_data, pub_status>>

\* no function has been given an input
NoArg == [f |-> "none"]
NoRes == [done |-> FALSE]
\* no function of gpsd.c or mqtt.c is being called
NoRet == [fn |-> "none", lib |-> "none", rv |-> 0, result |-> Untouched]
\* the main loop of main.c before its first step
MainIdle ==
    /\ pc = "connect"
    /\ now = StartTime
    /\ run_state = ZeroRunState
    /\ data = ZeroData
    /\ mosq_conn = "down"
    /\ gps_link = "up"
    /\ rc_reconnect = "not_called"
    /\ fails = 0
    /\ gps_status = "none"
    /\ changed = FALSE
    /\ event_data = NULL
    /\ pub_status = "none"
    /\ signalled = FALSE
\* the handles as gpsd_init and mqtt_init leave them
ModulesIdle ==
    /\ gpsd_handle = ZeroGpsdHandle
    /\ mqtt_handle = ZeroMqttHandle
    /\ ret = NoRet
    /\ gps_fd = 0
    /\ gpsd_alloc = TRUE
    /\ client = NewClient
    /\ config = Config(FALSE, FALSE)

\* the state when main reaches line 376: gps_open and gps_stream succeeded
Init ==
    /\ arg = NoArg
    /\ res = NoRes
    /\ ModulesIdle
    /\ pc = "connect"
    /\ now = StartTime
    /\ run_state = ZeroRunState
    /\ data = ZeroData
    /\ mosq_conn = "down"
    /\ gps_link = "up"
    /\ rc_reconnect = "not_called"
    /\ fails = 0
    /\ gps_status = "none"
    /\ changed = FALSE
    /\ event_data = NULL
    /\ pub_status = "none"
    /\ signalled = FALSE

\* lines 376-381: the first connect; its failure is logged
mosquitto_connect ==
    /\ pc = "connect"
    /\ \E status \in {MOSQ_ERR_SUCCESS} \cup ConnectErrors :
          mosq_conn' = IF status = MOSQ_ERR_SUCCESS THEN "up" ELSE "down"
    /\ run_state' = [run_state EXCEPT !.loop = TRUE]
    /\ pc' = "top"
    /\ UNCHANGED <<now, rc_reconnect, fails>>
    /\ UNCHANGED gps_vars
    /\ UNCHANGED signalled
    /\ UNCHANGED fun_vars
    /\ UNCHANGED mod_vars

\* line 383, the loop has been stopped
loop_exit ==
    /\ pc = "top"
    /\ ~run_state.loop
    /\ pc' = "cleanup"
    /\ UNCHANGED <<now, run_state, mosq_conn, rc_reconnect, fails>>
    /\ UNCHANGED gps_vars
    /\ UNCHANGED signalled
    /\ UNCHANGED fun_vars
    /\ UNCHANGED mod_vars

\* lines 383-386: the loop goes on and calls reconnect_mqtt when the flag is set
reconnect_mqtt ==
    /\ pc = "top"
    /\ run_state.loop
    /\ pc' = "pump"
    /\ \/ /\ ~run_state.reconnect_mosq
          /\ rc_reconnect' = "not_called"
          /\ UNCHANGED <<run_state, mosq_conn, fails>>
       \/ /\ run_state.reconnect_mosq
          /\ ReconnectNotDue(run_state, now)
          /\ rc_reconnect' = "not_due"
          /\ UNCHANGED <<run_state, mosq_conn, fails>>
       \/ /\ run_state.reconnect_mosq
          /\ ~ReconnectNotDue(run_state, now)
          /\ \E status \in ConnectErrors :
                /\ run_state' = ReconnectFailed(run_state, now)
                /\ mosq_conn' = "down"
                /\ rc_reconnect' = "failed"
                /\ fails' = IF fails < MaxFails THEN fails + 1 ELSE fails
       \/ /\ run_state.reconnect_mosq
          /\ ~ReconnectNotDue(run_state, now)
          /\ run_state' = ReconnectSucceeded(run_state)
          /\ mosq_conn' = "up"
          /\ rc_reconnect' = "ok"
          /\ fails' = 0
    /\ UNCHANGED now
    /\ UNCHANGED gps_vars
    /\ UNCHANGED signalled
    /\ UNCHANGED fun_vars
    /\ UNCHANGED mod_vars

\* line 388: mosquitto_loop; its status is dropped.  Without a connection it
\* returns MOSQ_ERR_NO_CONN and calls nothing; with one it may lose it and
\* then calls the disconnect callback with one of the results L
mosquitto_loop(L) ==
    /\ pc = "pump"
    /\ pc' = "gps"
    /\ \/ UNCHANGED <<run_state, mosq_conn>>
       \/ /\ mosq_conn = "up"
          /\ \E result \in L :
                run_state' = my_disconnect_cb(run_state, result)
          /\ mosq_conn' = "down"
    /\ UNCHANGED <<now, rc_reconnect, fails>>
    /\ UNCHANGED gps_vars
    /\ UNCHANGED signalled
    /\ UNCHANGED fun_vars
    /\ UNCHANGED mod_vars

\* send_mqtt_event: the status of mosquitto_publish is logged
\* mutant: nothing is published while the session is not connected
PublishStatuses_SkipsOffline ==
    IF mosq_conn = "up"
    THEN {MOSQ_ERR_SUCCESS} \cup PublishErrors
    ELSE {"none"}

PublishStatuses ==
    IF mosq_conn = "up"
    THEN {MOSQ_ERR_SUCCESS} \cup PublishErrors
    ELSE {"MOSQ_ERR_NO_CONN"}

\* lines 390-420, with the reports of R and the results M of malloc
\* (allocated or not).  A process killed in create_mqtt_payload stops where
\* it is: the report is in data and the snapshot is stored, and the step is
\* not completed
gps_step(R, M) ==
    /\ pc = "gps"
    /\ \/ \* gps_waiting finds nothing
          /\ pc' = "top"
          /\ gps_status' = "no_data"
          /\ changed' = FALSE /\ event_data' = NULL /\ pub_status' = "none"
          /\ UNCHANGED <<run_state, data, gps_link>>
       \/ \* gps_read fails: logged, continue
          /\ pc' = "top"
          /\ gps_status' = "read_failed"
          /\ gps_link' = "broken"
          /\ changed' = FALSE /\ event_data' = NULL /\ pub_status' = "none"
          /\ UNCHANGED <<run_state, data>>
       \/ \* gps_read delivers a report
          /\ gps_link = "up"
          /\ \E d \in R, allocated \in M :
                \E h \in {HandleReport(run_state, d, allocated)} :
                    /\ data' = d
                    /\ run_state' = h.rs
                    /\ IF h.killed
                       THEN /\ pc' = "killed"
                            /\ UNCHANGED <<gps_status, changed, event_data,
                                           pub_status>>
                       ELSE /\ pc' = "top"
                            /\ gps_status' = "read"
                            /\ changed' = h.changed
                            /\ event_data' = h.event_data
                            /\ IF h.event_data # NULL
                               THEN \E status \in PublishStatuses :
                                       pub_status' = status
                               ELSE pub_status' = "none"
          /\ UNCHANGED gps_link
    /\ UNCHANGED <<now, mosq_conn, rc_reconnect, fails>>
    /\ UNCHANGED signalled
    /\ UNCHANGED fun_vars
    /\ UNCHANGED mod_vars

\* lines 423-431: both connections are closed
cleanup ==
    /\ pc = "cleanup"
    /\ pc' = "done"
    /\ gps_link' = "closed"
    /\ mosq_conn' = "down"
    /\ UNCHANGED <<now, run_state, data, rc_reconnect, fails, gps_status,
                   changed, event_data, pub_status>>
    /\ UNCHANGED signalled
    /\ UNCHANGED fun_vars
    /\ UNCHANGED mod_vars

\* quit_handler, on SIGTERM, SIGQUIT or SIGINT
quit_handler ==
    /\ pc \notin {"cleanup", "done", "killed"}
    /\ run_state' = [run_state EXCEPT !.loop = FALSE]
    /\ signalled' = TRUE
    /\ UNCHANGED <<pc, now, mosq_conn, rc_reconnect, fails>>
    /\ UNCHANGED gps_vars
    /\ UNCHANGED fun_vars
    /\ UNCHANGED mod_vars

\* the clock, up to second T.  The loop reads it in reconnect_mqtt only, so
\* the seconds that pass during an iteration are counted before the next one
Tick(T) ==
    /\ pc = "top"
    /\ now < T
    /\ now' = now + 1
    /\ UNCHANGED <<pc, run_state, mosq_conn, rc_reconnect, fails>>
    /\ UNCHANGED gps_vars
    /\ UNCHANGED signalled
    /\ UNCHANGED fun_vars
    /\ UNCHANGED mod_vars

\* the loop of main, with the reports R, the disconnect results L and the
\* results M of malloc
LoopNext(R, L, M) ==
    \/ mosquitto_connect
    \/ reconnect_mqtt
    \/ mosquitto_loop(L)
    \/ gps_step(R, M)

\* the MQTT session over a long time, with a few reports
Next ==
    \/ LoopNext(BasicReports, DisconnectResults, {TRUE})
    \/ Tick(MaxTime)
Spec == Init /\ [][Next]_vars

\* the change detection over the fixes.  The broker may be unreachable or
\* drop the connection with a socket error; run_state.reconnect_mosq stays
\* clear, so the clock is never read
NextFix == LoopNext(FixReports, {"MOSQ_ERR_ERRNO"}, {TRUE})
SpecFix == Init /\ [][NextFix]_vars

\* the time deltas over the flag combinations, in the same environment
NextTiming == LoopNext(TimingReports, {"MOSQ_ERR_ERRNO"}, {TRUE})
SpecTiming == Init /\ [][NextTiming]_vars

\* lines 414-418 on a snapshot of its own: the payload is rendered into an
\* allocated buffer and, when there is one, published
render_event ==
    /\ ~res.done
    /\ LET e == create_mqtt_payload(TRUE, arg).event_data
       IN  \E status \in {MOSQ_ERR_SUCCESS, "MOSQ_ERR_NO_CONN"} \cup PublishErrors :
              res' = [done |-> TRUE, event_data |-> e,
                      pub_status |-> IF e # NULL THEN status ELSE "none"]
    /\ UNCHANGED arg
    /\ UNCHANGED main_vars
    /\ UNCHANGED mod_vars

\* the rendering over the snapshots
InitPayload ==
    /\ arg \in PayloadInputs
    /\ res = [done |-> FALSE, event_data |-> NULL, pub_status |-> "none"]
    /\ MainIdle
    /\ ModulesIdle
NextPayload == render_event
SpecPayload == InitPayload /\ [][NextPayload]_vars

\* TS_SUB(&diff, &clock, &real) on a pair of instants of its own
apply_TS_SUB ==
    /\ ~res.done
    /\ res' = [done |-> TRUE, diff |-> TS_SUB(arg.clock, arg.real)]
    /\ UNCHANGED arg
    /\ UNCHANGED main_vars
    /\ UNCHANGED mod_vars

\* the subtraction over the pairs of instants
InitTs ==
    /\ arg \in TsInputs
    /\ res = [done |-> FALSE, diff |-> ZeroTs]
    /\ MainIdle
    /\ ModulesIdle
NextTs == apply_TS_SUB
SpecTs == InitTs /\ [][NextTs]_vars

(***************************************************************************)
(* read_config on the events libyaml makes of a configuration file: arg    *)
(* is the file read so far, res the locals of read_config.                 *)
(***************************************************************************)
\* the scalars of the files read; the last key has KEY_SIZE characters, one
\* more than key holds with its NUL
ConfigKeys == {"gpsd", "mqtt", "tls", "auth", "port", "qos", "ca_cert_file",
               "cert_file", "key_file", "username", "password", "bogus",
  "k000000000111111111122222222223333333333444444444455555555556666"}
ConfigValues == {"x", "", "70000", "3"}

\* nothing read yet: cfg holds the defaults of YAML_STREAM_START_EVENT
NoFile ==
    [f |-> "read_config", path |-> <<>>, want |-> "doc", pending |-> "",
     n |-> 0, maps |-> 0, keys |-> {}]

\* YAML_MAPPING_START_EVENT: the document's mapping, or one as a value
yaml_mapping_start ==
    /\ arg.f = "read_config" /\ ~res.done
    /\ arg.want \in {"doc", "value"}
    /\ arg.maps < MaxMappings
    /\ arg' = [arg EXCEPT
                 !.path = Append(@, IF arg.want = "doc" THEN "/"
                                    ELSE arg.pending),
                 !.want = "key", !.maps = @ + 1]
    /\ res' = Turn(MappingStartEvent(res.st))
    /\ UNCHANGED main_vars
    /\ UNCHANGED mod_vars

\* YAML_SCALAR_EVENT: a key of the open mapping
yaml_scalar_key ==
    /\ arg.f = "read_config" /\ ~res.done
    /\ arg.want = "key" /\ arg.n < MaxScalars
    /\ \E val \in ConfigKeys :
          /\ arg' = [arg EXCEPT !.pending = val, !.want = "value",
                                !.n = @ + 1,
                                !.keys = @ \cup {<<arg.path, val>>}]
          /\ res' \in ScalarEvent(res.st, val)
    /\ UNCHANGED main_vars
    /\ UNCHANGED mod_vars

\* YAML_SCALAR_EVENT: the value of the last key
yaml_scalar_value ==
    /\ arg.f = "read_config" /\ ~res.done
    /\ arg.want = "value" /\ arg.n < MaxScalars
    /\ \E val \in ConfigValues :
          /\ arg' = [arg EXCEPT !.want = "key", !.n = @ + 1]
          /\ res' \in ScalarEvent(res.st, val)
    /\ UNCHANGED main_vars
    /\ UNCHANGED mod_vars

\* YAML_MAPPING_END_EVENT
yaml_mapping_end ==
    /\ arg.f = "read_config" /\ ~res.done
    /\ arg.want = "key"
    /\ arg' = [arg EXCEPT
                 !.path = SubSeq(@, 1, Len(@) - 1),
                 !.want = IF Len(arg.path) = 1 THEN "end" ELSE "key"]
    /\ res' = Turn(MappingEndEvent(res.st))
    /\ UNCHANGED main_vars
    /\ UNCHANGED mod_vars

\* a sequence or an alias as a value (default:), or yaml_parser_parse fails
yaml_unexpected ==
    /\ arg.f = "read_config" /\ ~res.done
    /\ arg.want = "value"
    /\ arg' = [arg EXCEPT !.want = "end"]
    /\ res' = Return(PARSE_ERROR(res.st))
    /\ UNCHANGED main_vars
    /\ UNCHANGED mod_vars

\* YAML_STREAM_END_EVENT after the document, or after none
yaml_stream_end ==
    /\ arg.f = "read_config" /\ ~res.done
    /\ arg.want \in {"doc", "end"}
    /\ arg' = [arg EXCEPT !.want = "end"]
    /\ res' = Return(Validate(res.st))
    /\ UNCHANGED main_vars
    /\ UNCHANGED mod_vars

InitConfig ==
    /\ arg = NoFile
    /\ res = Turn(ParserStart)
    /\ MainIdle
    /\ ModulesIdle
NextConfig ==
    \/ yaml_mapping_start
    \/ yaml_scalar_key
    \/ yaml_scalar_value
    \/ yaml_mapping_end
    \/ yaml_unexpected
    \/ yaml_stream_end
SpecConfig == InitConfig /\ [][NextConfig]_vars

\* The caller of gpsd.c and mqtt.c is not part of the sources.  It is taken
\* as the dispatcher of the specification: one function is called on a ready
\* descriptor at a time, and the loop then returns to its poll, where time
\* may pass.
dispatch_cycle ==
    /\ ret.fn # "none"
    /\ pc # "killed"
    /\ ret' = NoRet
    /\ \E dt \in {0, 1} :
          /\ now + dt <= StartTime + MaxPollTime
          /\ now' = now + dt
    /\ UNCHANGED <<pc, run_state, data, mosq_conn, gps_link, rc_reconnect,
                   fails, gps_status, changed, event_data, pub_status,
                   signalled>>
    /\ UNCHANGED <<gpsd_handle, mqtt_handle>>
    /\ UNCHANGED sess_vars
    /\ UNCHANGED fun_vars

\* a call of gpsd_read_data
call_gpsd_read_data ==
    /\ ret.fn = "none"
    /\ gpsd_handle.gpsd_events_recv < MaxEvents
    /\ \E status \in {GPS_READ_FAILED, GPS_NO_DATA, GPS_DATA} :
          \E d \in IF status = GPS_DATA THEN GpsdReports ELSE {gpsd_handle.gpsd} :
             \E allocated \in BOOLEAN :
                \E r \in {gpsd_read_data(gpsd_alloc, gpsd_handle, status, d,
                                          now, allocated)} :
                    /\ gpsd_handle' = r.handle
                    /\ ret' = [fn |-> "gpsd_read_data", lib |-> status,
                               rv |-> r.rv, result |-> r.result]
                    /\ pc' = IF r.killed THEN "killed" ELSE pc
    /\ UNCHANGED <<now, run_state, data, mosq_conn, gps_link, rc_reconnect,
                   fails, gps_status, changed, event_data, pub_status,
                   signalled>>
    /\ UNCHANGED mqtt_handle
    /\ UNCHANGED sess_vars
    /\ UNCHANGED fun_vars

\* a call of mqtt_read_data
call_mqtt_read_data ==
    /\ ret.fn = "none"
    /\ \E status \in MqttStatuses :
          ret' = [fn |-> "mqtt_read_data", lib |-> status,
                  rv |-> mqtt_read_data(client.handle, status),
                  result |-> Untouched]
    /\ UNCHANGED <<gpsd_handle, mqtt_handle>>
    /\ UNCHANGED sess_vars
    /\ UNCHANGED main_vars
    /\ UNCHANGED fun_vars

\* a call of mqtt_write_data
call_mqtt_write_data ==
    /\ ret.fn = "none"
    /\ \E status \in MqttStatuses :
          ret' = [fn |-> "mqtt_write_data", lib |-> status,
                  rv |-> mqtt_write_data(client.handle, status),
                  result |-> Untouched]
    /\ UNCHANGED <<gpsd_handle, mqtt_handle>>
    /\ UNCHANGED sess_vars
    /\ UNCHANGED main_vars
    /\ UNCHANGED fun_vars

\* a call of mqtt_misc_loop
call_mqtt_misc_loop ==
    /\ ret.fn = "none"
    /\ \E status \in MqttStatuses :
          ret' = [fn |-> "mqtt_misc_loop", lib |-> status,
                  rv |-> mqtt_misc_loop(client.handle, status),
                  result |-> Untouched]
    /\ UNCHANGED <<gpsd_handle, mqtt_handle>>
    /\ UNCHANGED sess_vars
    /\ UNCHANGED main_vars
    /\ UNCHANGED fun_vars

\* a call of mqtt_send_event
call_mqtt_send_event ==
    /\ ret.fn = "none"
    /\ mqtt_handle.mqtt_events_send < MaxEvents
    /\ \E status \in MqttStatuses :
          LET r == mqtt_send_event(client.handle, mqtt_handle, status, now)
          IN  /\ mqtt_handle' = r.handle
              /\ ret' = [fn |-> "mqtt_send_event", lib |-> status,
                         rv |-> r.rv, result |-> Untouched]
    /\ UNCHANGED gpsd_handle
    /\ UNCHANGED sess_vars
    /\ UNCHANGED main_vars
    /\ UNCHANGED fun_vars

\* the handles before the first call
InitModules ==
    /\ arg = NoArg
    /\ res = NoRes
    /\ MainIdle
    /\ ModulesIdle

\* the source session: reads of gpsd.c
NextGpsd ==
    \/ call_gpsd_read_data
    \/ dispatch_cycle
SpecGpsd == InitModules /\ [][NextGpsd]_vars

\* the sink session: pumps and publishes of mqtt.c
NextMqtt ==
    \/ call_mqtt_read_data
    \/ call_mqtt_write_data
    \/ call_mqtt_misc_loop
    \/ call_mqtt_send_event
    \/ dispatch_cycle
SpecMqtt == InitModules /\ [][NextMqtt]_vars

\* a call of gpsd_connect by the holder of the handle
call_gpsd_connect ==
    /\ ret.fn = "none"
    /\ \E open \in {0, -1}, stream \in {0, -1} :
          \E r \in {gpsd_connect(gpsd_alloc, gpsd_handle, gps_fd, open,
                                  stream)} :
             /\ gpsd_handle' = r.handle
             /\ gps_fd' = r.gps_fd
             /\ ret' = [fn |-> "gpsd_connect",
                        lib |-> IF ~gpsd_alloc THEN "GPS_NOT_CALLED"
                                ELSE IF open < 0 THEN "GPS_OPEN_FAILED"
                                ELSE IF stream < 0 THEN "GPS_STREAM_FAILED"
                                ELSE "GPS_OK",
                        rv |-> r.rv, result |-> Untouched]
    /\ UNCHANGED <<mqtt_handle, client, config, gpsd_alloc>>
    /\ UNCHANGED main_vars
    /\ UNCHANGED fun_vars

\* a call of gpsd_disconnect
call_gpsd_disconnect ==
    /\ ret.fn = "none"
    /\ \E stream \in {0, -1}, close \in {0, -1} :
          \E r \in {gpsd_disconnect(gpsd_alloc, gpsd_handle, gps_fd, stream,
                                     close)} :
             /\ gpsd_handle' = r.handle
             /\ gps_fd' = r.gps_fd
             /\ ret' = [fn |-> "gpsd_disconnect",
                        lib |-> IF ~gpsd_alloc \/ gps_fd < 0
                                THEN "GPS_NOT_CALLED"
                                ELSE IF close < 0 THEN "GPS_CLOSE_FAILED"
                                ELSE IF stream < 0 THEN "GPS_STREAM_FAILED"
                                ELSE "GPS_OK",
                        rv |-> r.rv, result |-> Untouched]
    /\ UNCHANGED <<mqtt_handle, client, config, gpsd_alloc>>
    /\ UNCHANGED main_vars
    /\ UNCHANGED fun_vars

\* a call of gpsd_read_data on the open session, with the reports of R, or
\* with NULL
read_session(R) ==
    /\ ret.fn = "none"
    /\ gps_fd = GPS_FD_OPEN \/ ~gpsd_alloc
    /\ gpsd_handle.gpsd_events_recv < MaxEvents
    /\ \E status \in {GPS_READ_FAILED, GPS_NO_DATA, GPS_DATA} :
          \E d \in IF status = GPS_DATA THEN R ELSE {gpsd_handle.gpsd} :
             \E allocated \in BOOLEAN :
                \E r \in {gpsd_read_data(gpsd_alloc, gpsd_handle, status, d,
                                          now, allocated)} :
                    /\ gpsd_handle' = r.handle
                    /\ ret' = [fn |-> "gpsd_read_data", lib |-> status,
                               rv |-> r.rv, result |-> r.result]
                    /\ pc' = IF r.killed THEN "killed" ELSE pc
    /\ UNCHANGED <<now, run_state, data, mosq_conn, gps_link, rc_reconnect,
                   fails, gps_status, changed, event_data, pub_status,
                   signalled>>
    /\ UNCHANGED mqtt_handle
    /\ UNCHANGED sess_vars
    /\ UNCHANGED fun_vars

\* a call of gpsd_dump_stats
call_gpsd_dump_stats ==
    /\ ret.fn = "none"
    /\ ret' = [fn |-> "gpsd_dump_stats", lib |-> "none", rv |-> 0,
               result |-> [state |-> "stats",
                           fields |-> gpsd_dump_stats(gpsd_alloc,
                                                         gpsd_handle)]]
    /\ UNCHANGED <<gpsd_handle, mqtt_handle>>
    /\ UNCHANGED sess_vars
    /\ UNCHANGED main_vars
    /\ UNCHANGED fun_vars

\* a call of gpsd_init by a caller that holds no handle
call_gpsd_init ==
    /\ ret.fn = "none"
    /\ ~gpsd_alloc
    /\ \E malloc_ok \in BOOLEAN :
          \E r \in {gpsd_init(malloc_ok)} :
             /\ gpsd_alloc' = r.alloc
             /\ gpsd_handle' = r.handle
             /\ gps_fd' = r.gps_fd
    /\ ret' = [fn |-> "gpsd_init", lib |-> "none", rv |-> 0,
               result |-> Untouched]
    /\ UNCHANGED <<mqtt_handle, client, config>>
    /\ UNCHANGED main_vars
    /\ UNCHANGED fun_vars

\* a call of gpsd_destroy, with the handle or with NULL
call_gpsd_destroy ==
    /\ ret.fn = "none"
    /\ \E r \in {gpsd_destroy(gpsd_alloc, gpsd_handle, gps_fd)} :
          /\ gpsd_alloc' = r.alloc
          /\ gpsd_handle' = r.handle
          /\ gps_fd' = r.gps_fd
    /\ ret' = [fn |-> "gpsd_destroy", lib |-> "none", rv |-> 0,
               result |-> Untouched]
    /\ UNCHANGED <<mqtt_handle, client, config>>
    /\ UNCHANGED main_vars
    /\ UNCHANGED fun_vars

\* the call of mqtt_init, with the configuration of the program, by a caller
\* that holds no handle; the handle it allocates is zeroed
call_mqtt_init ==
    /\ ret.fn = "none"
    /\ ~client.handle
    /\ \E new \in BOOLEAN :
          \E ins, opts, tls, auth \in {MOSQ_ERR_SUCCESS, "MOSQ_ERR_INVAL"} :
             client' = mqtt_init(config, InitStatus(new, ins, opts, tls, auth))
    /\ mqtt_handle' = ZeroMqttHandle
    /\ ret' = [fn |-> "mqtt_init", lib |-> "none", rv |-> 0,
               result |-> Untouched]
    /\ UNCHANGED <<gpsd_handle, gps_fd, config, gpsd_alloc>>
    /\ UNCHANGED main_vars
    /\ UNCHANGED fun_vars

\* a call of mqtt_destroy, with the handle or with NULL: the counters go
\* with the handle
call_mqtt_destroy ==
    /\ ret.fn = "none"
    /\ client' = mqtt_destroy(client)
    /\ mqtt_handle' = ZeroMqttHandle
    /\ ret' = [fn |-> "mqtt_destroy", lib |-> "none", rv |-> 0,
               result |-> Untouched]
    /\ UNCHANGED <<gpsd_handle, gps_fd, config, gpsd_alloc>>
    /\ UNCHANGED main_vars
    /\ UNCHANGED fun_vars

\* a call of mqtt_connect, with the handle mqtt_init returned or with NULL
call_mqtt_connect ==
    /\ ret.fn = "none"
    /\ client.attempts < MaxAttempts
    /\ \E status \in {MOSQ_ERR_SUCCESS} \cup ConnectErrors :
          \E r \in {mqtt_connect(client, status)} :
             /\ client' = r.client
             /\ ret' = [fn |-> "mqtt_connect", lib |-> status, rv |-> r.rv,
                        result |-> Untouched]
    /\ UNCHANGED <<gpsd_handle, mqtt_handle, gps_fd, config, gpsd_alloc>>
    /\ UNCHANGED main_vars
    /\ UNCHANGED fun_vars

\* a call of mqtt_disconnect: mosquitto_disconnect answers MOSQ_ERR_NO_CONN
\* without a connection, and may fail to send the DISCONNECT with one
call_mqtt_disconnect ==
    /\ ret.fn = "none"
    /\ \E status \in IF client.conn = "up"
                     THEN {MOSQ_ERR_SUCCESS, "MOSQ_ERR_NOMEM", "MOSQ_ERR_ERRNO"}
                     ELSE {"MOSQ_ERR_NO_CONN"} :
          \E r \in {mqtt_disconnect(client, status)} :
             /\ client' = r.client
             /\ ret' = [fn |-> "mqtt_disconnect", lib |-> status, rv |-> r.rv,
                        result |-> Untouched]
    /\ UNCHANGED <<gpsd_handle, mqtt_handle, gps_fd, config, gpsd_alloc>>
    /\ UNCHANGED main_vars
    /\ UNCHANGED fun_vars

\* a call of mqtt_dump_stats
call_mqtt_dump_stats ==
    /\ ret.fn = "none"
    /\ ret' = [fn |-> "mqtt_dump_stats", lib |-> "none", rv |-> 0,
               result |-> [state |-> "stats",
                           fields |-> mqtt_dump_stats(client.handle,
                                                         mqtt_handle)]]
    /\ UNCHANGED <<gpsd_handle, mqtt_handle>>
    /\ UNCHANGED sess_vars
    /\ UNCHANGED main_vars
    /\ UNCHANGED fun_vars

\* what a read leaves in handle->gpsd in the sessions below: an error
\* report, a report without a packet, and fixes that do and do not qualify
SessionReports ==
    {GpsdData(Report(fl, m, 10, 0, 1, << SatA >>, ZeroSat, Dbl(1), ZeroDelta),
              pk, ZeroOsc) :
        <<fl, m, pk>> \in {<<{ERROR_SET}, 3, TRUE>>, <<{}, 3, FALSE>>,
                           <<{}, MODE_NO_FIX, TRUE>>, <<{}, 3, TRUE>>}}

\* both handles before gpsd_init's handle is connected and before mqtt_init
InitSessions ==
    /\ arg = NoArg
    /\ res = NoRes
    /\ MainIdle
    /\ gpsd_handle = ZeroGpsdHandle
    /\ mqtt_handle = ZeroMqttHandle
    /\ ret = NoRet
    /\ gps_fd = 0
    /\ gpsd_alloc = TRUE
    /\ client = NoClient
    /\ config = Config(TRUE, TRUE)

\* the two handles over their lives, from _init to _destroy: connects,
\* reads, pumps, publishes, disconnects, reconnects and dumps of the
\* statistics, with the handle or, where the caller holds none, with NULL
NextSessions ==
    \/ call_gpsd_init
    \/ call_gpsd_connect
    \/ call_gpsd_disconnect
    \/ read_session(SessionReports)
    \/ call_gpsd_dump_stats
    \/ call_gpsd_destroy
    \/ call_mqtt_init
    \/ call_mqtt_connect
    \/ call_mqtt_read_data
    \/ call_mqtt_write_data
    \/ call_mqtt_misc_loop
    \/ call_mqtt_send_event
    \/ call_mqtt_disconnect
    \/ call_mqtt_dump_stats
    \/ call_mqtt_destroy
    \/ dispatch_cycle
SpecSessions == InitSessions /\ [][NextSessions]_vars

\* main.c from line 376 on, for every configuration read_config may have
\* returned; client is run_state.mosq, the client of mosquitto_new (line 350),
\* to which lines 350-375 apply nothing
InitStartup ==
    /\ arg = NoArg
    /\ res = NoRes
    /\ MainIdle
    /\ gpsd_handle = ZeroGpsdHandle
    /\ mqtt_handle = ZeroMqttHandle
    /\ ret = NoRet
    /\ gps_fd = 0
    /\ gpsd_alloc = TRUE
    /\ client = NewClient
    /\ config \in Configs
SpecStartup == InitStartup /\ [][NextFix]_vars

\* the loop under failures of both sessions and of malloc, up to its end,
\* over the first seconds, in which a failed attempt is followed by the next
\* ones
NextFailures ==
    \/ LoopNext(FailureReports, DisconnectResults, BOOLEAN)
    \/ Tick(StartTime + MaxPollTime)
    \/ loop_exit
    \/ cleanup
    \/ quit_handler
SpecFailures == Init /\ [][NextFailures]_vars

\* the shutdown: a signal may stop the loop at any time
NextShutdown ==
    \/ LoopNext(BasicReports, DisconnectResults, {TRUE})
    \/ loop_exit
    \/ cleanup
    \/ quit_handler
SpecShutdown == Init /\ [][NextShutdown]_vars

\* the steps of main itself; main is never suspended for good: the waits of
\* mosquitto_loop and gps_waiting end with their timeouts
MainStep ==
    \/ LoopNext(BasicReports, DisconnectResults, {TRUE})
    \/ loop_exit
    \/ cleanup
\* the shutdown with a main that keeps running; signals come when they come
SpecShutdownLive == SpecShutdown /\ WF_vars(MainStep)

(***************************************************************************)
(* The claims.                                                              *)
(***************************************************************************)
\* the delay of the k-th failed attempt in a row: 1, 2, 4, 8, 16, 32, 32, ...
Backoff(k) ==
    CASE k = 1 -> 1 [] k = 2 -> 2 [] k = 3 -> 4 [] k = 4 -> 8 [] k = 5 -> 16
      [] OTHER -> 32

\* C1: in every run of failed reconnect attempts in a row, the k-th failure
\* schedules the next attempt Backoff(k) seconds after the attempt, also in
\* a run that begins before any reconnect has succeeded.
C1_BackoffSequence ==
    [][(pc = "top" /\ pc' = "pump" /\ rc_reconnect' = "failed")
         => run_state'.next_reconnect_attempt - now = Backoff(fails')]_vars

\* C2: right after a reconnect_mqtt that succeeded, next_delay_value is 1,
\* next_reconnect_attempt is -1 and the reconnect flag is clear.
C2_SuccessResets ==
    (pc = "pump" /\ rc_reconnect = "ok")
        => /\ run_state.next_delay_value = 1
           /\ run_state.next_reconnect_attempt = -1
           /\ ~run_state.reconnect_mosq

\* reconnect_mqtt has just succeeded, at a time later than the process start
C2_Witness ==
    pc = "pump" /\ rc_reconnect = "ok" /\ now > StartTime + 2

\* C3: next_delay_value never exceeds 32.
C3_DelayCapped == run_state.next_delay_value <= 32

\* an attempt has failed with the delay already at the cap
C3_Witness ==
    rc_reconnect = "failed" /\ fails >= 6 /\ run_state.next_delay_value = 32

\* C4: a call of reconnect_mqtt while a reconnect is pending and its time has
\* not passed makes no connection attempt and changes nothing of run_state.
C4_PendingCallIsNoOp ==
    [][(/\ pc = "top" /\ pc' = "pump"
        /\ run_state.reconnect_mosq
        /\ run_state.next_reconnect_attempt >= now)
         => (/\ rc_reconnect' = "not_due"
             /\ run_state' = run_state
             /\ mosq_conn' = mosq_conn
             /\ fails' = fails)]_vars

\* reconnect_mqtt has returned early in the very second of the scheduled
\* attempt, after a failure
C4_Witness ==
    /\ pc = "pump" /\ rc_reconnect = "not_due"
    /\ run_state.next_reconnect_attempt = now
    /\ fails >= 1

\* C5: a transport failure of the MQTT session is followed by a reconnect
\* attempt.  Attempts are made for a set reconnect flag only, and the flag is
\* set by the disconnect callback and by reconnect_mqtt alone, so the claim
\* needs the flag set whenever the loop starts an iteration without a
\* connection.
C5_DownIsRetried ==
    (pc = "top" /\ mosq_conn = "down") => run_state.reconnect_mosq

\* C6: after a failed GPS read the session is torn down in the same loop
\* cycle and no wait or read call is made on it before it has reconnected:
\* the loop never stands before gps_waiting with a session whose read failed.
C6_NoReadOnBrokenSession ==
    ~(pc = "gps" /\ gps_link = "broken")

\* C7: a fix equal to the one before it in all of sats_used, sats_visible,
\* tdop, avg_snr and the seen histogram produces no event: of two identical
\* qualifying fixes in a row the second one is not published.
C7_IdenticalFixNoEvent ==
    [][(/\ pc = "gps"
        /\ gps_status = "read" /\ gps_status' = "read"
        /\ data' = data
        /\ ERROR_SET \notin data.set
        /\ data.fix_mode > MODE_NO_FIX /\ data.satellites_used > 0)
         => (event_data' = NULL /\ pub_status' = "none")]_vars

\* the fields of run_state the change detection compares and stores
Snapshot(rs) ==
    <<rs.sats_used, rs.sats_visible, rs.tdop, rs.avg_snr, rs.sats_seen,
      rs.time, rs.qErr>>

\* C8: a report without a fix (mode MODE_NO_FIX or lower) or with no
\* satellite used produces no payload and no publish and leaves the stored
\* snapshot as it was.
C8_NoFixNoEvent ==
    [][(/\ pc = "gps" /\ gps_status' = "read"
        /\ (data'.fix_mode <= MODE_NO_FIX \/ data'.satellites_used = 0))
         => (/\ event_data' = NULL
             /\ pub_status' = "none"
             /\ Snapshot(run_state') = Snapshot(run_state))]_vars

\* a report without a fix, or with no satellite used, has been read while a
\* snapshot of another shape was stored
C8_Witness ==
    /\ gps_status = "read"
    /\ (data.fix_mode <= MODE_NO_FIX \/ data.satellites_used = 0)
    /\ run_state.sats_used > 0
    /\ ~DblEq(run_state.tdop, data.tdop)

\* the timespec diff is exactly clock - real of the delta td
DeltaIs(diff, td) ==
    LET k == diff.tv_sec - (td.clock.tv_sec - td.real.tv_sec)
    IN  /\ k \in {-1, 0, 1}
        /\ k * NS_IN_SEC = (td.clock.tv_nsec - td.real.tv_nsec) - diff.tv_nsec

\* C9 as claimed: every report read that carries time-offset (PPS) data sets
\* the stored toff (pps) delta to clock - real, whatever else it is flagged
\* with; a report without such data leaves the delta.
C9_DeltasAlwaysTracked ==
    [][(pc = "gps" /\ gps_status' = "read")
         => (/\ IF TOFF_SET \in data'.set
                THEN DeltaIs(run_state'.toff_diff, data'.toff)
                ELSE run_state'.toff_diff = run_state.toff_diff
             /\ IF PPS_SET \in data'.set
                THEN DeltaIs(run_state'.pps_diff, data'.pps)
                ELSE run_state'.pps_diff = run_state.pps_diff)]_vars

\* C9, amended: every report read that is not an error report and carries
\* time-offset (PPS) data sets the stored toff (pps) delta to clock - real,
\* whatever its fix mode and satellites-used count; an error report, and a
\* report without such data, leaves the delta.
C9_DeltasTrackedUnlessError ==
    [][(pc = "gps" /\ gps_status' = "read")
         => (/\ IF TOFF_SET \in data'.set /\ ERROR_SET \notin data'.set
                THEN DeltaIs(run_state'.toff_diff, data'.toff)
                ELSE run_state'.toff_diff = run_state.toff_diff
             /\ IF PPS_SET \in data'.set /\ ERROR_SET \notin data'.set
                THEN DeltaIs(run_state'.pps_diff, data'.pps)
                ELSE run_state'.pps_diff = run_state.pps_diff)]_vars

\* a report without a fix has set a negative time offset
C9_Witness ==
    /\ gps_status = "read"
    /\ TOFF_SET \in data.set /\ ERROR_SET \notin data.set
    /\ data.fix_mode <= MODE_NO_FIX
    /\ run_state.toff_diff.tv_nsec < 0
    /\ DeltaIs(run_state.toff_diff, data.toff)

\* the sum of the strengths of the first n satellites of the skyview that are
\* flagged used and have a strength the scan accepts
RECURSIVE UsedStrength(_, _)
UsedStrength(d, n) ==
    IF n = 0
    THEN 0
    ELSE UsedStrength(d, n - 1)
         + (IF d.skyview[n].used /\ d.skyview[n].ss > 1
            THEN d.skyview[n].ss ELSE 0)

\* C10: the average SNR stored for a fix is the sum of the strengths of the
\* visible satellites flagged used, divided by satellites_used.
C10_AvgSnrOverUsedVisible ==
    (gps_status = "read" /\ changed)
        => run_state.avg_snr
             = DblDiv(UsedStrength(data, data.satellites_visible),
                      data.satellites_used)

\* C11: the seen histogram counts every visible satellite with a non-zero
\* svid and a known constellation once in the bucket of its gnssid, used in
\* the fix or not.
C11_SeenCountsVisible ==
    (gps_status = "read" /\ changed)
        => \A g \in 0..(GNSSID_CNT - 1) :
              run_state.sats_seen[g]
                = Cardinality({i \in 1..data.satellites_visible :
                                  /\ data.skyview[i].svid # 0
                                  /\ data.skyview[i].gnssid = g})

\* C12: the snapshot changes only in a step that judges a fix changed; that
\* step stores all the values of the new fix and renders the payload from
\* them; a step that judges a fix unchanged stores nothing.
C12_SnapshotReplacedOnChange ==
    [][/\ (Snapshot(run_state') # Snapshot(run_state))
            => (pc = "gps" /\ gps_status' = "read" /\ changed')
       /\ (pc = "gps" /\ gps_status' = "read" /\ changed')
            => /\ Snapshot(run_state')
                    = <<data'.satellites_used, data'.satellites_visible,
                        data'.tdop, SnrAvg(data'),
                        ScanSkyview(data').sats_seen,
                        data'.fix_time, data'.fix_qErr>>
               /\ event_data' # NULL
                    => /\ event_data'[1] = FieldDbl("time", Dbl(data'.fix_time))
                       /\ event_data'[2]
                            = FieldInt("sats_used", data'.satellites_used)
                       /\ event_data'[3]
                            = FieldInt("sats_visible", data'.satellites_visible)
                       /\ event_data'[4] = FieldDbl("tdop", data'.tdop)]_vars

\* a changed fix has replaced a snapshot with another time and another clock
\* quality error, and its payload has been rendered
C12_Witness ==
    /\ gps_status = "read" /\ changed /\ event_data # NULL
    /\ run_state.time = 11 /\ run_state.qErr = 7

\* the fields of a rendered payload, as the claims describe it: the five
\* leading ones, qErr when non-zero, toff, pps, one sats field for every
\* constellation seen, in ascending order, and the closing brace
RECURSIVE SeenFields(_, _)
SeenFields(seen, g) ==
    IF g >= GNSSID_CNT
    THEN << >>
    ELSE (IF seen[g] > 0 THEN << FieldInt(gnssid_name[g], seen[g]) >> ELSE << >>)
         \o SeenFields(seen, g + 1)

\* the names of the fields of payload e
Names(e) == [i \in 1..Len(e) |-> e[i].name]

\* C13: a rendered payload holds time, sats_used, sats_visible, tdop,
\* avg_snr, then qErr exactly when the clock quality error is non-zero, then
\* toff and pps, in this order; toff and pps are there whatever the deltas.
C13_FieldOrder ==
    (res.done /\ res.event_data # NULL)
        => LET e == res.event_data
               q == IF arg.qErr # 0 THEN 1 ELSE 0
           IN  /\ Len(e) >= 7 + q
               /\ SubSeq(Names(e), 1, 5)
                    = <<"time", "sats_used", "sats_visible", "tdop", "avg_snr">>
               /\ \A i \in 1..Len(e) : (e[i].name = "qErr") <=> (q = 1 /\ i = 6)
               /\ e[6 + q] = FieldTs("toff", arg.toff_diff)
               /\ e[7 + q] = FieldTs("pps", arg.pps_diff)

\* a payload without qErr has been rendered from a snapshot whose deltas
\* were never set
C13_Witness ==
    /\ res.done /\ res.event_data # NULL
    /\ arg.qErr = 0 /\ arg.toff_diff = ZeroTs /\ arg.pps_diff = ZeroTs
    /\ arg.time = 1700000000

\* C14: a rendered payload holds the field sats.<name> of a constellation
\* exactly when its seen count is above 0, with the count as value; these
\* fields come in ascending order of the constellation id, after pps and
\* before the closing brace.
C14_SeenFields ==
    (res.done /\ res.event_data # NULL)
        => LET e == res.event_data
               k == CHOOSE i \in 1..Len(e) : e[i].name = "pps"
           IN  /\ e[Len(e)] = FieldClose
               /\ SubSeq(e, k + 1, Len(e) - 1) = SeenFields(arg.sats_seen, 0)

\* a payload has been rendered for a histogram with some constellations seen
\* and some not
C14_Witness ==
    /\ res.done /\ res.event_data # NULL
    /\ arg.sats_seen[0] = 0 /\ arg.sats_seen[2] = 12 /\ arg.sats_seen[6] = 12
    /\ arg.sats_seen[7] = 0

\* the characters a field's format has around its conversion
FieldText(name) ==
    CASE name = "time" -> 8 [] name = "sats_used" -> 13
      [] name = "sats_visible" -> 16 [] name = "tdop" -> 8
      [] name = "avg_snr" -> 11 [] name = "qErr" -> 8 [] name = "toff" -> 8
      [] name = "pps" -> 7 [] name = "}" -> 1
      [] OTHER -> 9 + gnssid_name_len[CHOOSE g \in 0..(GNSSID_CNT - 1) :
                                          gnssid_name[g] = name]

\* the length of the text of the fields of e from index i on
RECURSIVE TextLen(_, _)
TextLen(e, i) ==
    IF i > Len(e) THEN 0
    ELSE FieldText(e[i].name) + ValueLen(e[i]) + TextLen(e, i + 1)

\* the complete payload of snapshot rs
WholePayload(rs) ==
    << FieldDbl("time", Dbl(rs.time)), FieldInt("sats_used", rs.sats_used),
       FieldInt("sats_visible", rs.sats_visible), FieldDbl("tdop", rs.tdop),
       FieldDbl("avg_snr", rs.avg_snr) >>
    \o (IF rs.qErr # 0 THEN << FieldInt("qErr", rs.qErr) >> ELSE << >>)
    \o << FieldTs("toff", rs.toff_diff), FieldTs("pps", rs.pps_diff) >>
    \o SeenFields(rs.sats_seen, 0)
    \o << FieldClose >>

\* C15: a payload that fits the buffer of 256 bytes with its terminator is
\* returned whole, closing brace included; one that does not fit is not
\* returned at all, cut short or otherwise, and nothing is published.
C15_NeverTruncates ==
    res.done
        => IF TextLen(WholePayload(arg), 1) + 1 <= INITIAL_BUFFER_SIZE
           THEN res.event_data = WholePayload(arg)
           ELSE res.event_data = NULL /\ res.pub_status = "none"

\* the rendering of a payload too long for the buffer has been given up
C15_Witness ==
    /\ res.done /\ res.event_data = NULL
    /\ TextLen(WholePayload(arg), 1) + 1 > INITIAL_BUFFER_SIZE

\* C16: for normalized clock and real, the seconds and nanoseconds TS_SUB
\* yields add up to exactly clock - real, whichever way the nanoseconds
\* carry; (100, 0.5) - (100, 0.1) is +0.4 s and (100, 0.1) - (100, 0.5) is
\* -0.4 s.
C16_TsSubExact ==
    res.done
        => /\ DeltaIs(res.diff, arg)
           /\ (arg.clock = Timespec(100, 500000000)
                 /\ arg.real = Timespec(100, 100000000))
                => res.diff = Timespec(0, 400000000)
           /\ (arg.clock = Timespec(100, 100000000)
                 /\ arg.real = Timespec(100, 500000000))
                => res.diff = Timespec(0, -400000000)

\* an earlier clock with the larger nanoseconds has been subtracted: the
\* seconds and the nanoseconds of the difference had opposite signs
C16_Witness ==
    /\ res.done
    /\ arg.clock = Timespec(100, 500000000)
    /\ arg.real = Timespec(101, 100000000)
    /\ res.diff = Timespec(0, -600000000)

\* what gpsd_read_data keeps of the past: the counters, the time of the last
\* event and the two deltas
GpsdStats(h) ==
    <<h.gpsd_events_recv, h.gpsd_events_send, h.gpsd_last_event,
      h.toff_diff, h.pps_diff>>

\* C17 as claimed: a read that finds an error report produces no event and
\* reports no error to its caller.
C17_ErrorReportIsNoError ==
    (/\ ret.fn = "gpsd_read_data" /\ ret.lib = GPS_DATA
     /\ ERROR_SET \in gpsd_handle.gpsd.set)
        => (ret.rv = 0 /\ ret.result = Untouched)

\* C17, amended: a read that finds an error report produces no event, keeps
\* the counters and the deltas, and returns -EIO: an error, but not the one
\* that asks for a reconnect.
C17_ErrorReportIsNotReconnect ==
    [][(/\ ret.fn = "none" /\ ret'.fn = "gpsd_read_data"
        /\ ret'.lib = GPS_DATA
        /\ ERROR_SET \in gpsd_handle'.gpsd.set)
         => (/\ ret'.rv = 0 - EIO
             /\ ret'.rv # 0 - ENOTCONN
             /\ ret'.result = Untouched
             /\ GpsdStats(gpsd_handle') = GpsdStats(gpsd_handle))]_vars

\* an error report has been read after a report that was counted and set a
\* time offset
C17_Witness ==
    /\ ret.fn = "gpsd_read_data" /\ ret.lib = GPS_DATA
    /\ ERROR_SET \in gpsd_handle.gpsd.set
    /\ ret.rv = 0 - EIO
    /\ gpsd_handle.gpsd_events_recv >= 1
    /\ gpsd_handle.toff_diff # ZeroTs

\* C18: gpsd_read_data returns 0 without a payload when nothing was waiting
\* and -ENOTCONN without a payload when the read fails, and keeps the
\* counters, the time of the last event and the deltas in both cases.
C18_NoDataAndFailureKeepStats ==
    [][(/\ ret.fn = "none" /\ ret'.fn = "gpsd_read_data"
        /\ ret'.lib \in {GPS_NO_DATA, GPS_READ_FAILED})
         => (/\ ret'.rv = IF ret'.lib = GPS_NO_DATA THEN 0 ELSE 0 - ENOTCONN
             /\ ret'.result = Untouched
             /\ GpsdStats(gpsd_handle') = GpsdStats(gpsd_handle))]_vars

\* a read has failed at a later time than the last event, with events
\* counted and a time offset stored
C18_Witness ==
    /\ ret.fn = "gpsd_read_data" /\ ret.lib = GPS_READ_FAILED
    /\ ret.rv = 0 - ENOTCONN
    /\ gpsd_handle.gpsd_events_send >= 1
    /\ gpsd_handle.gpsd_last_event < now
    /\ gpsd_handle.toff_diff # ZeroTs

\* the four functions of mqtt.c that classify a library status
MqttPumps ==
    {"mqtt_read_data", "mqtt_write_data", "mqtt_misc_loop", "mqtt_send_event"}

\* C19 as claimed: the four functions return 0 for success, -ENOTCONN for
\* connection lost, no connection, refused, auth rejected, TLS failure,
\* protocol error and unknown error, and -ENOTRECOVERABLE for every other
\* failure.
C19_ClassifiesProtocolAsReconnect ==
    ret.fn \in MqttPumps
        => ret.rv = IF ret.lib = MOSQ_ERR_SUCCESS THEN 0
                    ELSE IF ret.lib \in {"MOSQ_ERR_CONN_LOST", "MOSQ_ERR_NO_CONN",
                                         "MOSQ_ERR_CONN_REFUSED", "MOSQ_ERR_AUTH",
                                         "MOSQ_ERR_TLS", "MOSQ_ERR_PROTOCOL",
                                         "MOSQ_ERR_UNKNOWN"}
                    THEN 0 - ENOTCONN
                    ELSE 0 - ENOTRECOVERABLE

\* C19, amended: the four functions return 0 for success, -ENOTCONN for
\* connection lost, no connection, refused, auth rejected, TLS failure and
\* unknown error, and -ENOTRECOVERABLE for every other failure, a protocol
\* error included.
C19_ClassifiesAlike ==
    ret.fn \in MqttPumps
        => ret.rv = IF ret.lib = MOSQ_ERR_SUCCESS THEN 0
                    ELSE IF ret.lib \in {"MOSQ_ERR_CONN_LOST", "MOSQ_ERR_NO_CONN",
                                         "MOSQ_ERR_CONN_REFUSED", "MOSQ_ERR_AUTH",
                                         "MOSQ_ERR_TLS", "MOSQ_ERR_UNKNOWN"}
                    THEN 0 - ENOTCONN
                    ELSE 0 - ENOTRECOVERABLE

\* mqtt_misc_loop has answered a protocol error
C19_Witness ==
    /\ ret.fn = "mqtt_misc_loop" /\ ret.lib = "MOSQ_ERR_PROTOCOL"
    /\ ret.rv = 0 - ENOTRECOVERABLE

\* C20: mqtt_send_event adds 1 to the events-sent counter and sets the time
\* of the last event when the publish succeeds; when it fails it leaves both
\* and returns -ENOTCONN or -ENOTRECOVERABLE.  Nothing else changes them.
C20_SendCountsOnSuccess ==
    [][/\ (ret.fn = "none" /\ ret'.fn = "mqtt_send_event")
            => IF ret'.lib = MOSQ_ERR_SUCCESS
               THEN /\ ret'.rv = 0
                    /\ mqtt_handle'.mqtt_events_send
                         = mqtt_handle.mqtt_events_send + 1
                    /\ mqtt_handle'.mqtt_last_event = now
               ELSE /\ ret'.rv \in {0 - ENOTCONN, 0 - ENOTRECOVERABLE}
                    /\ mqtt_handle' = mqtt_handle
       /\ (mqtt_handle' # mqtt_handle)
            => (ret'.fn = "mqtt_send_event" /\ ret'.lib = MOSQ_ERR_SUCCESS)]_vars

\* a second event has been published, later than the first
C20_Witness ==
    /\ ret.fn = "mqtt_send_event" /\ ret.lib = MOSQ_ERR_SUCCESS
    /\ mqtt_handle.mqtt_events_send = 2
    /\ mqtt_handle.mqtt_last_event = now /\ now > StartTime

\* the counters of the two handles
Counters ==
    << gpsd_handle.gpsd_events_recv, gpsd_handle.gpsd_events_send,
       mqtt_handle.mqtt_events_send >>

\* C21: over the connects, reads, publishes, disconnects, reconnects and
\* statistics dumps of the two sessions no counter (GPS events received, GPS
\* events sent, MQTT events sent) ever decreases, and a statistics dump
\* changes neither handle nor connection.  The counters of a handle end with
\* the handle: gpsd_destroy and mqtt_destroy are no operation of a session.
C21_CountersNeverDecrease ==
    [][/\ ret'.fn \notin {"gpsd_destroy", "mqtt_destroy"}
             => \A i \in 1..3 : Counters'[i] >= Counters[i]
       /\ ret'.fn \in {"gpsd_dump_stats", "mqtt_dump_stats"}
             => /\ gpsd_handle' = gpsd_handle
                /\ mqtt_handle' = mqtt_handle
                /\ gps_fd' = gps_fd
                /\ client' = client]_vars

\* the GPS session has been opened again after events were counted on it,
\* the MQTT client having connected twice and published
C21_Witness ==
    /\ ret.fn = "gpsd_connect" /\ ret.rv = 0
    /\ gps_fd = GPS_FD_OPEN
    /\ gpsd_handle.gpsd_events_recv >= 2
    /\ gpsd_handle.gpsd_events_send >= 1
    /\ mqtt_handle.mqtt_events_send >= 1
    /\ client.attempts >= 2

\* C22: gpsd_disconnect on a handle that is not NULL returns 0, whether
\* gps_stream(WATCH_DISABLE) or gps_close failed or not.
C22_GpsdDisconnectSucceeds ==
    (ret.fn = "gpsd_disconnect" /\ gpsd_alloc) => ret.rv = 0

\* gpsd_disconnect has returned 0 on an open session, with events counted,
\* that gps_close failed to close
C22_Witness ==
    /\ ret.fn = "gpsd_disconnect"
    /\ ret.lib = "GPS_CLOSE_FAILED"
    /\ ret.rv = 0
    /\ gpsd_handle.gpsd_events_recv >= 1

\* C23: mqtt_disconnect on a handle that is not NULL hands no error to its
\* caller, whatever status mosquitto_disconnect reports.
C23_MqttDisconnectSucceeds ==
    (ret.fn = "mqtt_disconnect" /\ client.handle) => ret.rv = 0

\* C23, amended: mqtt_disconnect on a handle that is not NULL returns 0 when
\* mosquitto_disconnect reports success or MOSQ_ERR_NO_CONN; every other
\* status is logged and handed to the caller as -ENOTCONN.
C23_MqttDisconnectReportsFailure ==
    (ret.fn = "mqtt_disconnect" /\ client.handle)
        => ret.rv = IF ret.lib \in {MOSQ_ERR_SUCCESS, "MOSQ_ERR_NO_CONN"}
                    THEN 0
                    ELSE 0 - ENOTCONN

\* the close of a connected client, which has published, has failed
C23_Witness ==
    /\ ret.fn = "mqtt_disconnect" /\ client.handle
    /\ ret.lib = "MOSQ_ERR_NOMEM"
    /\ ret.rv = 0 - ENOTCONN
    /\ client.attempts >= 1
    /\ mqtt_handle.mqtt_events_send >= 1

\* C24: once a connection to the broker has been attempted, by main past
\* line 376 or by mqtt_connect, the client has the TLS parameters (peer
\* verification, version and ciphers, certificates) if TLS is configured and
\* the credentials if authentication is; and no attempt is made with a client
\* that mqtt_init gave up.
C24_SecuredBeforeConnect ==
    /\ (pc # "connect" \/ client.attempts > 0)
          => /\ config.use_tls => /\ client.tls_insecure
                                  /\ client.tls_opts
                                  /\ client.tls_set
             /\ config.use_auth => client.auth
    /\ ~client.handle => client.attempts = 0

\* C25: no failure of a session operation (a failed GPS read, an error
\* report, a failed pump, a failed publish, a failed rendering of a payload,
\* a failed reconnect attempt) ends the loop: the loop flag is cleared by a
\* shutdown signal only and main leaves the loop only after one, and
\* whatever has failed, an iteration goes from its reconnect step to the
\* MQTT pump, from the pump to the GPS step and from there to the next
\* iteration.
C25_FailuresKeepLoopRunning ==
    [][/\ (run_state.loop /\ ~run_state'.loop) => (signalled' /\ pc' = pc)
       /\ pc' = "cleanup" => signalled
       /\ pc = "top" => pc' \in {"top", "pump", "cleanup"}
       /\ pc = "pump" => pc' \in {"pump", "gps"}
       /\ pc = "gps" => pc' \in {"gps", "top"}]_vars

\* C26: while a reconnect of the MQTT session is pending and has not
\* succeeded, the session is neither pumped nor published on: an iteration
\* whose reconnect_mqtt found the attempt not due, or failed, does not go on
\* to mosquitto_loop and ends without a mosquitto_publish.
C26_NoPumpWhilePending ==
    rc_reconnect \in {"not_due", "failed"}
        => /\ pc # "gps"
           /\ pc = "top" => pub_status = "none"

\* what reconnect_mqtt keeps of its attempts
ReconnectState ==
    << run_state.next_reconnect_attempt, run_state.next_delay_value, fails,
       rc_reconnect >>

\* C27: within one iteration the MQTT pump and the GPS read come before a
\* due reconnect attempt: the step that opens an iteration, before its pump,
\* makes no attempt.
C27_ReadinessBeforeReconnect ==
    [][(pc = "top" /\ pc' = "pump")
         => rc_reconnect' \in {"not_called", "not_due"}]_vars

\* C27, amended: within one iteration a due reconnect attempt comes first,
\* before the MQTT pump and the GPS read and publish of that iteration:
\* attempts are made, and their schedule is changed, by the step that opens
\* an iteration alone, so a reconnect the pump asks for is attempted in the
\* next iteration at the earliest; the pump follows and the GPS step ends
\* the iteration.
C27_ReconnectBeforeReadiness ==
    [][/\ ReconnectState' # ReconnectState => (pc = "top" /\ pc' = "pump")
       /\ (pc = "top" /\ pc' = "pump" /\ ~run_state.reconnect_mosq)
             => rc_reconnect' = "not_called"
       /\ (mosq_conn = "up" /\ mosq_conn' = "down" /\ pc' # "done")
             => (pc = "pump" /\ pc' = "gps")
       /\ gps_status' # gps_status => (pc = "gps" /\ pc' = "top")]_vars

\* an iteration has opened with an attempt that succeeded, its pump and GPS
\* step still ahead, after the pump of an earlier iteration lost the
\* connection and a fix was read
C27_Witness ==
    /\ pc = "pump"
    /\ rc_reconnect = "ok"
    /\ fails = 0
    /\ gps_status = "read"
    /\ mosq_conn = "up"

\* C28: a shutdown signal delivered at any time after the handlers are
\* installed, also before the loop is entered, is followed by the end of the
\* loop and of main, with the GPS and the MQTT connection closed.
C28_SignalStopsLoop ==
    signalled ~> (pc = "done" /\ gps_link = "closed" /\ mosq_conn = "down")

\* the keys read_config knows in the mapping at a path of the file
KnownKeys(path) ==
    CASE path = <<"/">> -> {"daemon", "gpsd", "mqtt"}
      [] path = <<"/", "daemon">> -> {"user", "group"}
      [] path = <<"/", "gpsd">> -> {"host", "port", "device"}
      [] path = <<"/", "mqtt">> ->
            {"client_id", "host", "port", "qos", "retain", "auth", "tls"}
      [] path = <<"/", "mqtt", "auth">> -> {"username", "password"}
      [] path = <<"/", "mqtt", "tls">> ->
            {"ca_cert_path", "ca_cert_file", "cert_file", "key_file",
             "verify_peer", "tls_version", "ciphers"}
      [] OTHER -> {}

\* C29: a configuration read_config returns is validated: the MQTT port is
\* in 1..65535, 8883 with TLS and 1883 without when the file gives none, the
\* QoS is in 0..2, with TLS a CA path or file is set and the certificate and
\* the key are both set or both unset, and the file has no unknown key and
\* no key in a block it does not belong to.
C29_ConfigValidated ==
    (arg.f = "read_config" /\ res.done /\ ~res.null) =>
        LET cfg == res.st.cfg
        IN  /\ cfg.mqtt_port \in 1..65535
            /\ <<<<"/", "mqtt">>, "port">> \notin arg.keys =>
                  cfg.mqtt_port = IF cfg.use_tls THEN 8883 ELSE 1883
            /\ cfg.qos \in 0..2
            /\ cfg.use_tls =>
                  /\ cfg.cacertpath # "" \/ cfg.cacertfile # ""
                  /\ (cfg.certfile = "") = (cfg.keyfile = "")
            /\ \A pk \in arg.keys : pk[2] \in KnownKeys(pk[1])

\* C30: for every fix the scan has gone over, every index it read the
\* skyview at is below the number of visible satellites and below the
\* capacity of the array, a full skyview included.
C30_ScanWithinSkyview ==
    (gps_status = "read" /\ ERROR_SET \notin data.set /\ Qualifies(data))
        => \A i \in ScanIndices(data) :
              i < data.satellites_visible /\ i < MaxChannels

\* C31: a fix judged changed whose payload renders is handed to one publish
\* call in the same iteration, connected or not and with a reconnect pending
\* or not; a publish call is made only there, for a fix that differs from
\* the stored snapshot and with the payload of that iteration, so nothing is
\* retried or queued; and after a failed publish the snapshot is that of the
\* fix, not the one before.
C31_OnePublishPerChange ==
    [][/\ (pc = "gps" /\ pc' = "top" /\ gps_status' = "read" /\ changed'
              /\ event_data' # NULL)
            => pub_status' # "none"
       /\ (pc = "gps" /\ pc' = "top" /\ pub_status' # "none")
            => /\ gps_status' = "read" /\ changed'
               /\ ~StatsEqual(run_state, data')
               /\ event_data' = create_mqtt_payload(TRUE, run_state').event_data
       /\ ~(pc = "gps" /\ pc' = "top")
            => (pub_status' = pub_status /\ event_data' = event_data)
       /\ (pc = "gps" /\ pc' = "top" /\ changed' /\ pub_status' # MOSQ_ERR_SUCCESS)
            => /\ StatsEqual(run_state', data') \/ data'.tdop = NaN
               /\ run_state'.sats_used = data'.satellites_used
               /\ run_state'.time = data'.fix_time]_vars

\* a changed fix was handed to publish, which failed, while the session was
\* down with a reconnect pending after a failed attempt
C31_Witness ==
    /\ gps_status = "read" /\ changed /\ event_data # NULL
    /\ pub_status = "MOSQ_ERR_NO_CONN"
    /\ mosq_conn = "down" /\ run_state.reconnect_mosq
    /\ rc_reconnect = "failed"
    /\ run_state.sats_used = data.satellites_used

\* C32: after gpsd_connect has returned a failure the session of the handle
\* holds no open connection: its gps_fd is not a live descriptor, whether
\* gps_open failed or gps_open succeeded and gps_stream failed.
C32_FailedConnectHoldsNoSession ==
    (ret.fn = "gpsd_connect" /\ ret.rv < 0) => gps_fd < 0

\* C33: gpsd_disconnect on a session that holds no open connection, fresh
\* from gpsd_init or already disconnected, makes no call of gps_stream or
\* gps_close, returns 0 and leaves the session as it was.
C33_DisconnectIdempotent ==
    [][(ret.fn = "none" /\ ret'.fn = "gpsd_disconnect"
          /\ gpsd_alloc /\ gps_fd # GPS_FD_OPEN)
         => (/\ ret'.lib = "GPS_NOT_CALLED"
             /\ ret'.rv = 0
             /\ gps_fd' = gps_fd)]_vars

\* C34: a call of gpsd_read_data adds 1 to the events-sent counter of the
\* handle when it returns a payload to its caller, and leaves the counter as
\* it was when it returns 0 or an error, a payload that failed to render
\* included.
C34_SentCountsPayloads ==
    [][(ret.fn = "none" /\ ret'.fn = "gpsd_read_data" /\ pc' # "killed")
         => gpsd_handle'.gpsd_events_send
              = gpsd_handle.gpsd_events_send
                + (IF ret'.rv > 0 /\ ret'.result.state = "payload"
                   THEN 1 ELSE 0)]_vars

\* C35: the difference TS_SUB makes of two normalized instants is
\* normalized: its nanoseconds are less than a second in magnitude and never
\* of the sign opposite to seconds that are not zero, and TS_NORM leaves it
\* as it is.
C35_TsSubNormalized ==
    res.done
        => /\ Abs(res.diff.tv_nsec) < NS_IN_SEC
           /\ res.diff.tv_sec > 0 => res.diff.tv_nsec >= 0
           /\ res.diff.tv_sec < 0 => res.diff.tv_nsec <= 0
           /\ TS_NORM(res.diff) = res.diff

\* the nanoseconds of the subtraction passed a second below zero and were
\* carried into the seconds
C35_Witness ==
    /\ res.done
    /\ arg.clock = Timespec(-1, -999999999)
    /\ arg.real = Timespec(1, 999999999)
    /\ res.diff = Timespec(-3, -999999998)

\* C36: a configuration read_config returns with use_auth set has both the
\* username and the password (neither is NULL), whatever the order and the
\* values, empty ones included, of the keys of the auth block.
C36_AuthHasCredentials ==
    (arg.f = "read_config" /\ res.done /\ ~res.null /\ res.st.cfg.use_auth)
        => (res.st.cfg.username # "" /\ res.st.cfg.password # "")

====
